---- MODULE Spec2Model ----
(***************************************************************************)
(* Style-profile feedback loop of the e-mail assistant: the React clients  *)
(* (App wizard, StyleAnalysisResults, SyntheticEmailReview, EmailReview,   *)
(* Dashboard, EmailGenerator) and the backend they talk to.  The backend   *)
(* sources are not part of the repository snapshot; its operations are     *)
(* modelled from the specification (sections 4 and 7) over the tables of   *)
(* email_analysis_schema.sql.                                              *)
(***************************************************************************)
EXTENDS Integers, Sequences, FiniteSets, TLC

\* ---------------------------------------------------------------- bounds
MaxRequests == 2      \* requests of the session that change the backend's state
SampleCount == 1      \* samples the generator makes per category
MaxKeyPoints == 1     \* key points the EmailGenerator form holds
MaxPairId == 5        \* largest id the EmailInputForm gives to a pair

\* ------------------------------------------------------------ value sets
Users      == 1..3
Categories == {"Formal", "Casual"}
Hosts      == {"App", "SAR", "CAV"}   \* parents that mount SyntheticEmailReview
\* the front ends: the wizard (App.jsx), the /style-analysis route, the
\* review list (EmailReview), the /dashboard route, the /generate-email route
\* and a caller of the api.js client; /login and /register
Pages      == {"Wizard", "Analysis", "Review", "Dashboard", "Composer", "Script",
               "Combined", "Form", "Login", "Register"}
\* the front ends that mount SyntheticEmailReview, and the others
HostPages  == {"Wizard", "Analysis"}
OtherPages == Pages \ {"Wizard", "Combined", "Form", "Login", "Register"}

NullId     == 0                   \* JS null for an id (SERIAL ids start at 1)
NullRating == -1                  \* JS null for a rating
NullText   == "<null>"            \* JS null for a text
NoEmails   == <<>>                \* null / {} : a mapping with no keys

\* JS truthiness of the values the handlers test
FalsyRating(r) == r = NullRating \/ r = 0
FalsyText(t)   == t = NullText \/ t = ""
FalsyMap(m)    == DOMAIN m = {}

VARIABLES
  rows,             \* table synthetic_emails, row id = index
  llmCalls,         \* calls made to the language model
  styleAnalysis,    \* table style_analysis: the latest analysis' categories per user
  profile,          \* frozen style profile per user (set of row ids)
  net,              \* requests and responses in flight
  reqCount,         \* state-changing requests issued so far by the session
  userId,           \* localStorage userId of the tracked session
  page,             \* the front end the session has open
  app,              \* state of App (wizard): activeStep, loading
  sar,              \* state of StyleAnalysisResults: generatingEmails
  syntheticEmails,  \* [Hosts -> category-keyed mapping]: state of App / StyleAnalysisResults
  review,           \* [Hosts -> dialog state of the mounted SyntheticEmailReview]
  er,               \* state of EmailReview
  dash,             \* state of Dashboard
  gen,              \* state of EmailGenerator
  generatedEmails,  \* table generated_emails, row id = index
  submitted,        \* history: <<component, emailId>> the UI has sent feedback for
  users,            \* table users: the ids of the rows it holds
  emailPairs,       \* table email_pairs, row id = index
  script,           \* what the caller of the api.js client got from its calls
  cav,              \* state of CombinedAnalysisView
  form,             \* state of EmailInputForm
  auth              \* state of AuthProvider, Login and Register, the session's
                    \* other localStorage items and the axios default headers

vars == <<rows, llmCalls, styleAnalysis, profile, net, reqCount, userId, page,
          app, sar, syntheticEmails, review, er, dash, gen, generatedEmails,
          submitted, users, emailPairs, script, cav, form, auth>>

serverVars == <<rows, llmCalls, styleAnalysis, profile, generatedEmails, users,
                emailPairs>>
uiVars     == <<app, sar, syntheticEmails, review, er, dash, gen, script, cav, form, auth>>

\* ------------------------------------------------------------ the tables
\* a revision row that names itself as the row it revises
NewRow_SelfOrigin(u, c, orig, n) ==
  [userId |-> u, category |-> c, content |-> n, approved |-> FALSE,
   rating |-> NullRating, feedback |-> NullText,
   originalEmailId |-> IF orig = NullId THEN NullId ELSE n]

NewRow(u, c, orig, n) ==
  [userId |-> u, category |-> c, content |-> n, approved |-> FALSE,
   rating |-> NullRating, feedback |-> NullText, originalEmailId |-> orig]

RowIds == 1..Len(rows)

RowsOf(u) == {i \in RowIds : rows[i].userId = u}

ApprovedOf(u) == {i \in RowsOf(u) : rows[i].approved}

Successors(tbl, id) == {i \in 1..Len(tbl) : tbl[i].originalEmailId = id}

\* the place of a deleted row: SERIAL ids are not given out again
NoRow ==
  [userId |-> NullId, category |-> "", content |-> NullId, approved |-> FALSE,
   rating |-> NullRating, feedback |-> NullText, originalEmailId |-> NullId]

\* user_id REFERENCES users(id): a row can be inserted for a stored user only
KnownUser(u) == u \in users

\* the e-mail pairs the input form lets a user submit at least
MinPairs == 2

\* n rows of email_pairs for user u
RECURSIVE StorePairs(_, _, _)
StorePairs(tbl, u, n) ==
  IF n = 0 THEN tbl ELSE StorePairs(Append(tbl, [userId |-> u]), u, n - 1)

\* what a client sees of a row
Entry(tbl, i) ==
  [id |-> i, category |-> tbl[i].category, content |-> tbl[i].content,
   approved |-> tbl[i].approved]

\* --------------------------------------------------------------- backend
\* The request handlers of the backend, modelled from the specification.
\* Each returns the new table, the new count of language-model calls and
\* the response body.

Result(tbl, calls, err, newId, emails) ==
  [rows |-> tbl, llmCalls |-> calls, error |-> err,
   newEmailId |-> newId, emails |-> emails, content |-> NullId]

ValidRating(r) == r \in 1..100

\* submitFeedback regenerating without looking at the row's state
SubmitFeedback_NoStateCheck(tbl, calls, u, id, isApproved, rating, comments, llmOk) ==
  IF id \notin 1..Len(tbl) \/ tbl[id].userId # u
    THEN Result(tbl, calls, "NotFound", NullId, NoEmails)
  ELSE IF isApproved
    THEN Result([tbl EXCEPT ![id].approved = TRUE], calls, "", NullId, NoEmails)
  ELSE IF ~ValidRating(rating) \/ FalsyText(comments)
    THEN Result(tbl, calls, "ValidationError", NullId, NoEmails)
  ELSE Result(Append(tbl, NewRow(u, tbl[id].category, id, Len(tbl) + 1)),
              calls + 1, "", Len(tbl) + 1, NoEmails)

\* 4.3  submitFeedback(userId, emailId, isApproved, rating, comments);
\* llmOk: whether the language model answers the regeneration call.
SubmitFeedback(tbl, calls, u, id, isApproved, rating, comments, llmOk) ==
  IF id \notin 1..Len(tbl) \/ tbl[id].userId # u
    THEN Result(tbl, calls, "NotFound", NullId, NoEmails)
  ELSE IF isApproved
    THEN IF tbl[id].approved
           THEN Result(tbl, calls, "", NullId, NoEmails)
           ELSE Result([tbl EXCEPT ![id].approved = TRUE,
                                   ![id].rating = rating,
                                   ![id].feedback = comments],
                       calls, "", NullId, NoEmails)
  ELSE IF ~ValidRating(rating) \/ FalsyText(comments)
    THEN Result(tbl, calls, "ValidationError", NullId, NoEmails)
  ELSE IF tbl[id].approved
    THEN Result(tbl, calls, "InvalidStateTransition", NullId, NoEmails)
  ELSE IF ~llmOk
    THEN Result(tbl, calls + 1, "ModelCallFailure", NullId, NoEmails)
  ELSE Result(Append(tbl, NewRow(u, tbl[id].category, id, Len(tbl) + 1)),
              calls + 1, "", Len(tbl) + 1, NoEmails)

\* 4.2  the Sample Generator: SampleCount fresh rows for one category
RECURSIVE GenerateCategory(_, _, _, _)
GenerateCategory(tbl, u, c, k) ==
  IF k = 0 THEN tbl
  ELSE GenerateCategory(Append(tbl, NewRow(u, c, NullId, Len(tbl) + 1)), u, c, k - 1)

\* a generator that gives up the whole batch when one category fails
GenerateRows_RollBack(tbl, u, catSeq, okCats) ==
  IF \A k \in 1..Len(catSeq) : catSeq[k] \in okCats
    THEN LET RECURSIVE All(_, _)
             All(t, cs) == IF cs = <<>> THEN t
                           ELSE All(GenerateCategory(t, u, Head(cs), SampleCount), Tail(cs))
         IN  All(tbl, catSeq)
    ELSE tbl

\* 4.2  one independent generation per category of the analysis, in order;
\* okCats: the categories for which the language model answers.
RECURSIVE GenerateRows(_, _, _, _)
GenerateRows(tbl, u, catSeq, okCats) ==
  IF catSeq = <<>> THEN tbl
  ELSE GenerateRows(IF Head(catSeq) \in okCats
                      THEN GenerateCategory(tbl, u, Head(catSeq), SampleCount)
                      ELSE tbl,
                    u, Tail(catSeq), okCats)

SeqRange(s) == {s[i] : i \in 1..Len(s)}

\* ids lo+1..hi of category c, in creation order
RECURSIVE EntriesOf(_, _, _, _)
EntriesOf(tbl, c, lo, hi) ==
  IF lo >= hi THEN <<>>
  ELSE IF tbl[lo + 1].category = c
    THEN <<Entry(tbl, lo + 1)>> \o EntriesOf(tbl, c, lo + 1, hi)
    ELSE EntriesOf(tbl, c, lo + 1, hi)

\* the generator's output: category name -> ordered samples of the batch
OutputMapping(tbl, catSeq, lo) ==
  [c \in SeqRange(catSeq) |-> EntriesOf(tbl, c, lo, Len(tbl))]

\* 4.1 + 4.2  submitEmailPairs / synthetic-emails: generate a batch for the
\* categories of the user's analysis; fails as a whole when a category fails,
\* keeping the rows of the categories that succeeded.
GenerateSamples(tbl, calls, u, catSeq, okCats) ==
  LET tbl2 == GenerateRows(tbl, u, catSeq, okCats) IN
  IF SeqRange(catSeq) \subseteq okCats
    THEN Result(tbl2, calls + Len(catSeq), "", NullId,
                OutputMapping(tbl2, catSeq, Len(tbl)))
    ELSE Result(tbl2, calls + Len(catSeq), "GenerationFailure", NullId, NoEmails)

\* a finalizer that freezes the latest approved row only
SaveStyleProfile_Latest(tbl, u) ==
  {i \in 1..Len(tbl) :
     /\ tbl[i].userId = u /\ tbl[i].approved
     /\ \A j \in (i + 1)..Len(tbl) : ~(tbl[j].userId = u /\ tbl[j].approved)}

\* 4.4  saveStyleProfile(userId): the approved rows of the user
SaveStyleProfile(tbl, u) ==
  {i \in 1..Len(tbl) : tbl[i].userId = u /\ tbl[i].approved}

\* 4.5  generateEmail(userId, recipient, topic, keyPoints); a text is a
\* sequence of characters; llmOk: whether the language model answers.
GenerateEmail(gtbl, calls, u, recipient, topic, keyPoints, llmOk) ==
  IF recipient = <<>> \/ topic = <<>> \/ keyPoints = <<>>
    THEN [generatedEmails |-> gtbl, llmCalls |-> calls, error |-> "ValidationError",
          content |-> NullId]
  ELSE IF ~llmOk
    THEN [generatedEmails |-> gtbl, llmCalls |-> calls + 1,
          error |-> "CompositionFailure", content |-> NullId]
  ELSE [generatedEmails |->
          Append(gtbl, [userId |-> u, recipient |-> recipient, topic |-> topic,
                        keyPoints |-> keyPoints, content |-> Len(gtbl) + 1]),
        llmCalls |-> calls + 1, error |-> "", content |-> Len(gtbl) + 1]

\* getUserData(userId).syntheticEmails: read-only projection of the user's rows
RECURSIVE UserEmails(_, _, _)
UserEmails(tbl, u, lo) ==
  IF lo >= Len(tbl) THEN <<>>
  ELSE IF tbl[lo + 1].userId = u
    THEN <<Entry(tbl, lo + 1)>> \o UserEmails(tbl, u, lo + 1)
    ELSE UserEmails(tbl, u, lo + 1)

\* ------------------------------------------------------------- transport
NoData ==
  [success |-> FALSE, error |-> "", improvedEmail |-> NullId,
   newEmailId |-> NullId, emails |-> NoEmails, updatedEmails |-> NoEmails,
   content |-> NullId, generatedEmail |-> NullId,
   hasCompletedAnalysis |-> FALSE]

\* an HTTP request of component `from`; n numbers the session's requests
Request(n, from, op, u, emailId, category, isApproved, rating, comments) ==
  [n |-> n, from |-> from, op |-> op, phase |-> "req", userId |-> u,
   emailId |-> emailId, category |-> category, isApproved |-> isApproved,
   rating |-> rating, comments |-> comments, closure |-> NoEmails,
   recipient |-> <<>>, topic |-> <<>>, keyPoints |-> <<>>,
   status |-> 0, data |-> NoData]

\* a failed operation is framed as an error status or as 200 with success=false
ErrorStatuses == {200, 400}

Response(m, r, errStatus) ==
  [m EXCEPT !.phase = "resp",
            !.status = IF r.error = "" THEN 200 ELSE errStatus,
            !.data = [success |-> r.error = "", error |-> r.error,
                      improvedEmail |-> IF r.newEmailId # NullId
                                          THEN r.rows[r.newEmailId].content
                                          ELSE NullId,
                      newEmailId |-> r.newEmailId, emails |-> r.emails,
                      updatedEmails |-> NoEmails,
                      content |-> r.content, generatedEmail |-> NullId,
                      hasCompletedAnalysis |-> m.op = "user-data"
                                                 /\ styleAnalysis[m.userId] # <<>>]]

\* the transport fails: the client's fetch / axios call rejects
NetworkError(m) == [m EXCEPT !.phase = "resp", !.status = 0, !.data = NoData]

Requests(op)  == {m \in net : m.phase = "req" /\ m.op = op}

\* what the await of component `from` can resume with: the response, or a
\* rejection because the request or the response was lost in transport
Responses(from, op) ==
  {m \in net : m.phase = "resp" /\ m.from = from /\ m.op = op}
    \cup {NetworkError(m) : m \in {x \in net : x.from = from /\ x.op = op}}

\* the message in flight that the await resumes with r
InFlight(r) == {m \in net : m = r \/ NetworkError(m) = r}

\* axios rejects on a transport error and on a non-2xx status; fetch only on the former
AxiosThrows(m) == m.status # 200
FetchThrows(m) == m.status = 0

\* requests are told apart by n only when they are otherwise the same
Numbered(m) ==
  [m EXCEPT !.n = CHOOSE k \in 1..(Cardinality(net) + 1) :
                    /\ [m EXCEPT !.n = k] \notin net
                    /\ \A j \in 1..(k - 1) : [m EXCEPT !.n = j] \in net]

Send(m) ==
  /\ reqCount < MaxRequests
  /\ reqCount' = reqCount + 1
  /\ net' = net \cup {Numbered(m)}

\* a read on mount, done once per component
SendRead(m) ==
  /\ net' = net \cup {Numbered(m)}
  /\ UNCHANGED reqCount

\* -------------------------------------------------------- backend actions
AnalysisChoices == {<<"Formal">>, <<"Casual", "Formal">>}

\* POST /api/submit-emails: analysis (one model call), then the generator
ServerSubmitEmails(m) ==
  /\ m \in Requests("submit-emails")
  /\ \E errStatus \in ErrorStatuses :
       IF ~KnownUser(m.userId)
         THEN \* the user's row is gone: nothing can be stored for it
              /\ net' = (net \ {m}) \cup
                        {Response(m, Result(rows, llmCalls, "IntegrityError",
                                            NullId, NoEmails), errStatus)}
              /\ UNCHANGED <<rows, llmCalls, styleAnalysis, emailPairs>>
         ELSE \/ \* the analysis call fails or does not parse
                 /\ llmCalls' = llmCalls + 1
                 /\ net' = (net \ {m}) \cup
                           {Response(m, Result(rows, llmCalls + 1, "AnalysisFailure",
                                               NullId, NoEmails), errStatus)}
                 /\ UNCHANGED <<rows, styleAnalysis, emailPairs>>
              \/ \E catSeq \in AnalysisChoices : \E okCats \in SUBSET SeqRange(catSeq) :
                   LET r == GenerateSamples(rows, llmCalls + 1, m.userId, catSeq,
                                            okCats) IN
                   /\ rows' = r.rows
                   /\ llmCalls' = r.llmCalls
                   /\ styleAnalysis' = [styleAnalysis EXCEPT ![m.userId] = catSeq]
                   /\ emailPairs' = StorePairs(emailPairs, m.userId, MinPairs)
                   /\ net' = (net \ {m}) \cup {Response(m, r, errStatus)}
  /\ UNCHANGED <<profile, reqCount, userId, page, uiVars, submitted,
                 generatedEmails>>
  /\ UNCHANGED <<users>>

\* GET /api/synthetic-emails: the generator over the user's latest analysis
ServerSyntheticEmails(m) ==
  /\ m \in Requests("synthetic-emails")
  /\ \E errStatus \in ErrorStatuses :
     \E okCats \in SUBSET SeqRange(styleAnalysis[m.userId]) :
       LET r == IF KnownUser(m.userId)
                  THEN GenerateSamples(rows, llmCalls, m.userId,
                                       styleAnalysis[m.userId], okCats)
                  ELSE Result(rows, llmCalls, "IntegrityError", NullId, NoEmails) IN
       /\ rows' = r.rows
       /\ llmCalls' = r.llmCalls
       /\ net' = (net \ {m}) \cup {Response(m, r, errStatus)}
  /\ UNCHANGED <<styleAnalysis, profile, reqCount, userId, page, uiVars, submitted,
                 generatedEmails>>
  /\ UNCHANGED <<users, emailPairs>>

\* POST /api/email-feedback
ServerEmailFeedback(m) ==
  /\ m \in Requests("email-feedback")
  /\ \E errStatus \in ErrorStatuses : \E llmOk \in BOOLEAN :
       LET r == SubmitFeedback(rows, llmCalls, m.userId, m.emailId,
                               m.isApproved, m.rating, m.comments, llmOk) IN
       /\ rows' = r.rows
       /\ llmCalls' = r.llmCalls
       /\ net' = (net \ {m}) \cup {Response(m, r, errStatus)}
  /\ UNCHANGED <<styleAnalysis, profile, reqCount, userId, page, uiVars, submitted,
                 generatedEmails>>
  /\ UNCHANGED <<users, emailPairs>>

\* GET /api/user-data
ServerUserData(m) ==
  /\ m \in Requests("user-data")
  /\ net' = (net \ {m}) \cup
            {Response(m, Result(rows, llmCalls, "", NullId,
                                UserEmails(rows, m.userId, 0)), 200)}
  /\ UNCHANGED <<serverVars, reqCount, userId, page, uiVars, submitted>>

\* POST /api/save-style-profile
ServerSaveStyleProfile(m) ==
  /\ m \in Requests("save-style-profile")
  /\ \E errStatus \in ErrorStatuses :
       LET approved == SaveStyleProfile(rows, m.userId) IN
       IF approved = {}
         THEN /\ net' = (net \ {m}) \cup
                        {Response(m, Result(rows, llmCalls, "NoApprovedSamples",
                                            NullId, NoEmails), errStatus)}
              /\ UNCHANGED profile
         ELSE /\ profile' = [profile EXCEPT ![m.userId] = approved]
              /\ net' = (net \ {m}) \cup
                        {Response(m, Result(rows, llmCalls, "", NullId, NoEmails), 200)}
  /\ UNCHANGED <<rows, llmCalls, styleAnalysis, reqCount, userId, page, uiVars, submitted,
                 generatedEmails>>
  /\ UNCHANGED <<users, emailPairs>>

\* POST /api/generate-email
ServerGenerateEmail(m) ==
  /\ m \in Requests("generate-email")
  /\ \E errStatus \in ErrorStatuses : \E llmOk \in BOOLEAN :
       LET g == IF KnownUser(m.userId)
                  THEN GenerateEmail(generatedEmails, llmCalls, m.userId, m.recipient,
                                     m.topic, m.keyPoints, llmOk)
                  ELSE [generatedEmails |-> generatedEmails, llmCalls |-> llmCalls,
                        error |-> "IntegrityError", content |-> NullId] IN
       /\ generatedEmails' = g.generatedEmails
       /\ llmCalls' = g.llmCalls
       /\ net' = (net \ {m}) \cup
                 {Response(m, [Result(rows, g.llmCalls, g.error, NullId, NoEmails)
                                 EXCEPT !.content = g.content], errStatus)}
  /\ UNCHANGED <<rows, styleAnalysis, profile, reqCount, userId, page, uiVars, submitted>>
  /\ UNCHANGED <<users, emailPairs>>

\* ------------------------------------------- EmailInputForm (part_004)
\* part_004 holds two versions of the component; either may be the one built
FormVersions == {1, 2}

\* the second version's button asks for five pairs
MinPairsSecond == 5

\* a pair of the form; the texts of its question and answer are not tracked
\* (handleChange rewrites them and changes neither an id nor the number of pairs)
EmptyPair(id) == [id |-> id]

\* useState([{id: 1, question: '', answer: ''}]), isSubmitting false, submitError ''
FormInitial(version) ==
  [version |-> version, emailPairs |-> <<EmptyPair(1)>>,
   isSubmitting |-> FALSE, submitError |-> ""]

\* a first-version form into which two pairs have been entered
FilledForm == [FormInitial(1) EXCEPT !.emailPairs = <<EmptyPair(1), EmptyPair(2)>>]

PairIds(pairs) == {pairs[k].id : k \in 1..Len(pairs)}

\* Math.max(...emailPairs.map(pair => pair.id))
MaxPair(pairs) == CHOOSE i \in PairIds(pairs) : \A j \in PairIds(pairs) : j <= i

\* the wizard renders the form at step 0 and passes its loading flag; the
\* dashboard's submit tab renders it without onSubmit and without loading
FormRendered == (page = "Wizard" /\ app.activeStep = 0) \/ page = "Form"
FormLoading  == page = "Wizard" /\ app.loading

\* handleAddPair
FormHandleAddPair ==
  /\ FormRendered
  /\ LET newId == IF Len(form.emailPairs) > 0 THEN MaxPair(form.emailPairs) + 1
                  ELSE 1 IN
     /\ newId <= MaxPairId
     /\ form' = [form EXCEPT !.emailPairs = Append(@, EmptyPair(newId))]
  /\ UNCHANGED <<serverVars, net, reqCount, userId, page, app, sar, syntheticEmails,
                 review, er, dash, gen, submitted, script, cav, auth>>

\* handleRemovePair(id): the delete button is disabled, and the handler
\* returns, when one pair is left
FormHandleRemovePair(id) ==
  /\ FormRendered
  /\ id \in PairIds(form.emailPairs)
  /\ ~(Len(form.emailPairs) <= 1)
  /\ form' = [form EXCEPT !.emailPairs = SelectSeq(@, LAMBDA pair : pair.id # id)]
  /\ UNCHANGED <<serverVars, net, reqCount, userId, page, app, sar, syntheticEmails,
                 review, er, dash, gen, submitted, script, cav, auth>>

\* the submit button without its test of the number of pairs
FormSubmitDisabled_NoMinimum(f, loading) ==
  loading \/ (f.version = 1 /\ f.isSubmitting)

\* disabled={(emailPairs.length < 2) || loading || isSubmitting}   (first version)
\* disabled={emailPairs.length < 5 || loading}                      (second version)
FormSubmitDisabled(f, loading) ==
  IF f.version = 1
    THEN (Len(f.emailPairs) < MinPairs) \/ loading \/ f.isSubmitting
    ELSE Len(f.emailPairs) < MinPairsSecond \/ loading

\* the form's submit event can be raised
SubmitOffered ==
  FormRendered /\ ~FormSubmitDisabled(form, FormLoading)

\* handleSubmit without onSubmit, up to the await (the first version posts
\* the pairs itself; the second calls the missing onSubmit and throws)
FormHandleSubmit ==
  /\ page = "Form" /\ SubmitOffered
  /\ IF form.version = 1
       THEN /\ Send(Request(1, "Form", "submit-emails", userId, NullId, "",
                            FALSE, NullRating, NullText))
            /\ form' = [form EXCEPT !.isSubmitting = TRUE, !.submitError = ""]
       ELSE UNCHANGED <<net, reqCount, form>>
  /\ UNCHANGED <<serverVars, userId, page, app, sar, syntheticEmails, review, er, dash,
                 gen, submitted, script, cav, auth>>

\* handleSubmit, after the await (axios)
FormSubmitDone(m) ==
  /\ m \in Responses("Form", "submit-emails")
  /\ \E x \in InFlight(m) : net' = net \ {x}
  /\ IF AxiosThrows(m)
       THEN /\ form' = [form EXCEPT
                          !.submitError = IF m.status # 0 THEN m.data.error
                                          ELSE "Cannot connect to server",
                          !.isSubmitting = FALSE]
            /\ UNCHANGED page
       ELSE IF m.data.error = ""
         THEN \* navigate('/style-analysis')
              /\ page' = "Combined"
              /\ form' = [form EXCEPT !.isSubmitting = FALSE]
         ELSE /\ form' = [form EXCEPT !.submitError = m.data.error,
                                      !.isSubmitting = FALSE]
              /\ UNCHANGED page
  /\ UNCHANGED <<serverVars, reqCount, userId, app, sar, syntheticEmails, review, er,
                 dash, gen, submitted, script, cav, auth>>

\* ------------------------------------------------ App (wizard, App.jsx)
\* mount: useEffect -> checkUserData, up to the await
AppCheckUserData ==
  /\ page = "Wizard"
  /\ ~app.mounted
  /\ SendRead(Request(1, "App", "user-data", userId, NullId, "",
                      FALSE, NullRating, NullText))
  /\ app' = [app EXCEPT !.mounted = TRUE]
  /\ UNCHANGED <<serverVars, userId, page, sar, syntheticEmails, review, er, dash,
                 gen, submitted>>
  /\ UNCHANGED <<script, cav, form, auth>>

\* checkUserData, after the await
AppCheckUserDataDone(m) ==
  /\ m \in Responses("App", "user-data")
  /\ \E x \in InFlight(m) : net' = net \ {x}
  /\ app' = IF ~FetchThrows(m) /\ m.data.success /\ m.data.hasCompletedAnalysis
              THEN [app EXCEPT !.activeStep = 2]
              ELSE app
  /\ UNCHANGED <<serverVars, reqCount, userId, page, sar, syntheticEmails, review, er,
                 dash, gen, submitted>>
  /\ UNCHANGED <<script, cav, form, auth>>

\* handleEmailSubmit, up to the await
AppHandleEmailSubmit ==
  /\ page = "Wizard" /\ app.mounted
  /\ app.activeStep = 0 /\ ~app.loading
  /\ SubmitOffered
  /\ Send(Request(1, "App", "submit-emails", userId, NullId, "",
                  FALSE, NullRating, NullText))
  /\ app' = [app EXCEPT !.loading = TRUE]
  /\ UNCHANGED <<serverVars, userId, page, sar, syntheticEmails, review, er, dash, submitted,
                 gen>>
  /\ UNCHANGED <<script, cav, form, auth>>

\* handleEmailSubmit going on to the review step whatever data.success says
AppEmailSubmitDone_IgnoreSuccess(m) ==
  /\ m \in Responses("App", "submit-emails")
  /\ \E x \in InFlight(m) : net' = net \ {x}
  /\ IF ~FetchThrows(m)
       THEN /\ syntheticEmails' = [syntheticEmails EXCEPT !["App"] = m.data.emails]
            /\ app' = [app EXCEPT !.activeStep = 1, !.loading = FALSE]
       ELSE /\ app' = [app EXCEPT !.loading = FALSE]
            /\ UNCHANGED syntheticEmails
  /\ UNCHANGED <<serverVars, reqCount, userId, page, sar, review, er, dash, submitted,
                 gen>>
  /\ UNCHANGED <<script, cav, form, auth>>

\* handleEmailSubmit, after the await
AppEmailSubmitDone(m) ==
  /\ m \in Responses("App", "submit-emails")
  /\ \E x \in InFlight(m) : net' = net \ {x}
  /\ IF ~FetchThrows(m) /\ m.data.success
       THEN /\ syntheticEmails' = [syntheticEmails EXCEPT !["App"] = m.data.emails]
            /\ app' = [app EXCEPT !.activeStep = 1, !.loading = FALSE]
       ELSE /\ app' = [app EXCEPT !.loading = FALSE]
            /\ UNCHANGED syntheticEmails
  /\ UNCHANGED <<serverVars, reqCount, userId, page, sar, review, er, dash, submitted,
                 gen>>
  /\ UNCHANGED <<script, cav, form, auth>>

\* the state a SyntheticEmailReview mounts with
ReviewInitial ==
  [selectedEmail |-> [id |-> NullId, category |-> "", content |-> NullId,
                      approved |-> FALSE],
   rating |-> 0, feedback |-> "", feedbackDialogOpen |-> FALSE,
   snackbarOpen |-> FALSE, snackbarMessage |-> ""]

\* handleCompleteReview: the wizard goes on to its last step, which unmounts
\* the SyntheticEmailReview of the review step
AppHandleCompleteReview ==
  /\ page = "Wizard" /\ app.mounted
  /\ app.activeStep = 1
  /\ app' = [app EXCEPT !.activeStep = 2]
  /\ review' = [review EXCEPT !["App"] = ReviewInitial]
  /\ UNCHANGED <<serverVars, net, reqCount, userId, page, sar, syntheticEmails,
                 er, dash, submitted, gen, script>>
  /\ UNCHANGED <<cav, form, auth>>

\* the updater appending the improved sample instead of replacing the rejected one
ReplaceImproved_Append(prevEmails, category, emailId, improvedEmail, newEmailId) ==
  IF category \notin DOMAIN prevEmails THEN prevEmails
  ELSE [prevEmails EXCEPT ![category] =
          Append(@, [id |-> newEmailId, category |-> category,
                     content |-> improvedEmail, approved |-> FALSE])]

\* the updater handleEmailFeedback passes to setSyntheticEmails
ReplaceImproved(prevEmails, category, emailId, improvedEmail, newEmailId) ==
  IF category \notin DOMAIN prevEmails THEN prevEmails
  ELSE [prevEmails EXCEPT ![category] =
          [k \in 1..Len(@) |->
             IF @[k].id = emailId
               THEN [@[k] EXCEPT !.content = improvedEmail, !.id = newEmailId]
               ELSE @[k]]]

\* handleEmailFeedback, after the await
AppEmailFeedbackDone(m) ==
  /\ m \in Responses("App", "email-feedback")
  /\ \E x \in InFlight(m) : net' = net \ {x}
  /\ IF ~FetchThrows(m) /\ m.data.success /\ m.data.improvedEmail # NullId
       THEN syntheticEmails' =
              [syntheticEmails EXCEPT !["App"] =
                 ReplaceImproved(@, m.category, m.emailId,
                                 m.data.improvedEmail, m.data.newEmailId)]
       ELSE UNCHANGED syntheticEmails
  /\ UNCHANGED <<serverVars, reqCount, userId, page, app, sar, review, er, dash, submitted,
                 gen>>
  /\ UNCHANGED <<script, cav, form, auth>>

\* --------------------------------------- StyleAnalysisResults (part_003)
\* setSnackbarMessage / setSnackbarSeverity / setSnackbarOpen(true)
Snackbar(severity, message) ==
  [open |-> TRUE, severity |-> severity, message |-> message]

\* handleGenerateSyntheticEmails, up to the await
SarHandleGenerateSyntheticEmails ==
  /\ page = "Analysis"
  /\ ~sar.generatingEmails
  /\ Send(Request(1, "SAR", "synthetic-emails", userId, NullId, "",
                  FALSE, NullRating, NullText))
  /\ sar' = [sar EXCEPT !.generatingEmails = TRUE,
                        !.snackbar = Snackbar("info", "Generating synthetic emails")]
  /\ UNCHANGED <<serverVars, userId, page, app, syntheticEmails, review, er, dash, submitted,
                 gen>>
  /\ UNCHANGED <<script, cav, form, auth>>

\* handleGenerateSyntheticEmails, after the await (fetch; !response.ok throws)
SarGenerateDone(m) ==
  /\ m \in Responses("SAR", "synthetic-emails")
  /\ \E x \in InFlight(m) : net' = net \ {x}
  /\ IF m.status = 200
       THEN /\ syntheticEmails' = [syntheticEmails EXCEPT !["SAR"] = m.data.emails]
            /\ sar' = [sar EXCEPT
                         !.generatingEmails = FALSE,
                         !.snackbar = Snackbar("success", "Synthetic emails generated")]
       ELSE /\ UNCHANGED syntheticEmails
            /\ sar' = [sar EXCEPT
                         !.generatingEmails = FALSE,
                         !.snackbar = Snackbar("error", "Failed to generate synthetic emails")]
  /\ UNCHANGED <<serverVars, reqCount, userId, page, app, review, er, dash, submitted,
                 gen>>
  /\ UNCHANGED <<script, cav, form, auth>>

\* {...syntheticEmails, [category]: updatedEmails}
WithCategory(emails, category, updatedEmails) ==
  [c \in DOMAIN emails \cup {category} |->
     IF c = category THEN updatedEmails ELSE emails[c]]

\* handleEmailFeedback, after the await (axios); m.closure is the
\* syntheticEmails the handler closed over when it was called
SarEmailFeedbackDone(m) ==
  /\ m \in Responses("SAR", "email-feedback")
  /\ \E x \in InFlight(m) : net' = net \ {x}
  /\ IF ~AxiosThrows(m) /\ ~FalsyMap(m.data.updatedEmails) /\ m.category # ""
       THEN syntheticEmails' =
              [syntheticEmails EXCEPT !["SAR"] =
                 WithCategory(m.closure, m.category, m.data.updatedEmails)]
       ELSE UNCHANGED syntheticEmails
  /\ sar' = [sar EXCEPT !.snackbar =
               IF AxiosThrows(m)
                 THEN Snackbar("error", "Failed to submit feedback")
                 ELSE Snackbar("success", IF m.isApproved THEN "Email approved"
                                          ELSE "Feedback submitted and email improved")]
  /\ UNCHANGED <<serverVars, reqCount, userId, page, app, review, er, dash, submitted,
                 gen>>
  /\ UNCHANGED <<script, cav, form, auth>>

\* Snackbar / Alert onClose
SarSnackbarClose ==
  /\ page = "Analysis"
  /\ sar.snackbar.open
  /\ sar' = [sar EXCEPT !.snackbar.open = FALSE]
  /\ UNCHANGED <<serverVars, net, reqCount, userId, page, app, syntheticEmails, review,
                 er, dash, gen, submitted, script, cav, form, auth>>

\* ------------------------------------ CombinedAnalysisView (Register.jsx)
\* mount: useEffect -> fetchSyntheticEmails, up to the await
CavFetchSyntheticEmails ==
  /\ page = "Combined"
  /\ ~cav.mounted
  /\ Send(Request(1, "CAV", "synthetic-emails", userId, NullId, "",
                  FALSE, NullRating, NullText))
  /\ cav' = [cav EXCEPT !.mounted = TRUE]
  /\ UNCHANGED <<serverVars, userId, page, app, sar, syntheticEmails, review, er,
                 dash, gen, submitted, script, form, auth>>

\* fetchSyntheticEmails, after the await (axios)
CavFetchSyntheticEmailsDone(m) ==
  /\ m \in Responses("CAV", "synthetic-emails")
  /\ \E x \in InFlight(m) : net' = net \ {x}
  /\ IF AxiosThrows(m)
       THEN /\ cav' = [cav EXCEPT !.error = TRUE, !.loading = FALSE]
            /\ UNCHANGED syntheticEmails
       ELSE /\ cav' = [cav EXCEPT !.loading = FALSE]
            /\ syntheticEmails' = [syntheticEmails EXCEPT !["CAV"] = m.data.emails]
  /\ UNCHANGED <<serverVars, reqCount, userId, page, app, sar, review, er, dash,
                 gen, submitted, script, form, auth>>

\* handleEmailFeedback, after the await (axios); the catch only logs
CavEmailFeedbackDone(m) ==
  /\ m \in Responses("CAV", "email-feedback")
  /\ \E x \in InFlight(m) : net' = net \ {x}
  /\ IF ~AxiosThrows(m) /\ ~FalsyMap(m.data.updatedEmails)
       THEN syntheticEmails' =
              [syntheticEmails EXCEPT !["CAV"] =
                 WithCategory(@, m.category, m.data.updatedEmails)]
       ELSE UNCHANGED syntheticEmails
  /\ UNCHANGED <<serverVars, reqCount, userId, page, app, sar, review, er, dash,
                 gen, submitted, script, cav, form, auth>>

\* --------------------------------------------------- SyntheticEmailReview
NoEntry == [id |-> NullId, category |-> "", content |-> NullId, approved |-> FALSE]

\* the parent h renders the component and the component renders its cards
Rendered(h) ==
  /\ h = "App" => app.activeStep = 1
  /\ h = "CAV" => ~cav.loading /\ ~cav.error
  /\ ~FalsyMap(syntheticEmails[h])

\* the cards: <<category, index>> of every sample shown
Cards(h) ==
  UNION {{<<c, i>> : i \in 1..Len(syntheticEmails[h][c])} :
           c \in DOMAIN syntheticEmails[h]}

\* onFeedback(feedbackData) of the parent h, up to its await
OnFeedback(h, emailId, category, isApproved, rating, comments) ==
  /\ Send([Request(1, h, "email-feedback", userId, emailId, category,
                   isApproved, rating, comments)
             EXCEPT !.closure = IF h = "SAR" THEN syntheticEmails[h] ELSE NoEmails])
  /\ submitted' = submitted \cup {<<h, emailId>>}

\* the Approve button of a card is shown
ApproveOffered(h, c, i) == Rendered(h) /\ <<c, i>> \in Cards(h)

\* the Needs Improvement button of a card is shown
ImproveOffered(h, c, i) == Rendered(h) /\ <<c, i>> \in Cards(h)

\* handleApprove(email, category)
HandleApprove(h, c, i) ==
  /\ ApproveOffered(h, c, i)
  /\ OnFeedback(h, syntheticEmails[h][c][i].id, c, TRUE, NullRating, NullText)
  /\ review' = [review EXCEPT ![h].snackbarOpen = TRUE,
                              ![h].snackbarMessage = "Email approved"]
  /\ UNCHANGED <<serverVars, userId, page, app, sar, syntheticEmails, er, dash,
                 gen, script>>
  /\ UNCHANGED <<cav, form, auth>>

\* handleImprove(email, category)
HandleImprove(h, c, i) ==
  /\ ImproveOffered(h, c, i)
  /\ review' = [review EXCEPT
                  ![h].selectedEmail = [syntheticEmails[h][c][i] EXCEPT !.category = c],
                  ![h].rating = 0, ![h].feedback = "",
                  ![h].feedbackDialogOpen = TRUE]
  /\ UNCHANGED <<serverVars, net, reqCount, userId, page, app, sar, syntheticEmails,
                 er, dash, submitted,
                 gen>>
  /\ UNCHANGED <<script, cav, form, auth>>

\* what the Rating widget hands to onChange: a number of half stars, or null
StarInputs == {NullRating, 6}

\* Rating onChange: setRating(newValue * 20); null * 20 is 0
RatingOfStars(halfStars) == IF halfStars = NullRating THEN 0 ELSE halfStars * 10

FeedbackInputs == {"", "more formal"}

\* the ends of what the Rating widget can hand to onChange with precision
\* 0.5 and max 5: half a star, five stars, or null when the rating is cleared
HalfStarEnds == {NullRating, 1, 10}

\* the dialog's Rating and TextField, with the star inputs tried
DialogEditWith(h, stars) ==
  /\ Rendered(h) /\ review[h].feedbackDialogOpen
  /\ \E halfStars \in stars, text \in FeedbackInputs :
       review' = [review EXCEPT ![h].rating = RatingOfStars(halfStars),
                                ![h].feedback = text]
  /\ UNCHANGED <<serverVars, net, reqCount, userId, page, app, sar, syntheticEmails,
                 er, dash, submitted,
                 gen>>
  /\ UNCHANGED <<script, cav, form, auth>>

DialogEdit(h) == DialogEditWith(h, StarInputs)

\* Cancel / onClose
DialogCancel(h) ==
  /\ Rendered(h) /\ review[h].feedbackDialogOpen
  /\ review' = [review EXCEPT ![h].feedbackDialogOpen = FALSE]
  /\ UNCHANGED <<serverVars, net, reqCount, userId, page, app, sar, syntheticEmails,
                 er, dash, submitted,
                 gen>>
  /\ UNCHANGED <<script, cav, form, auth>>

\* the Submit Feedback button disabled on missing comments only
SubmitDisabled_FeedbackOnly(rating, feedback) == FalsyText(feedback)

\* the Submit Feedback button disabled on a missing rating only
SubmitDisabled_RatingOnly(rating, feedback) == FalsyRating(rating)

\* disabled={!rating || !feedback} of the Submit Feedback button
SubmitDisabled(rating, feedback) == FalsyRating(rating) \/ FalsyText(feedback)

\* handleFeedbackSubmit
HandleFeedbackSubmit(h) ==
  /\ Rendered(h) /\ review[h].feedbackDialogOpen
  /\ ~SubmitDisabled(review[h].rating, review[h].feedback)
  /\ OnFeedback(h, review[h].selectedEmail.id, review[h].selectedEmail.category,
                FALSE, review[h].rating, review[h].feedback)
  /\ review' = [review EXCEPT ![h].feedbackDialogOpen = FALSE,
                              ![h].snackbarOpen = TRUE,
                              ![h].snackbarMessage = "Feedback submitted"]
  /\ UNCHANGED <<serverVars, userId, page, app, sar, syntheticEmails, er, dash,
                 gen>>
  /\ UNCHANGED <<script, cav, form, auth>>

\* Snackbar / Alert onClose
SnackbarClose(h) ==
  /\ Rendered(h) /\ review[h].snackbarOpen
  /\ review' = [review EXCEPT ![h].snackbarOpen = FALSE]
  /\ UNCHANGED <<serverVars, net, reqCount, userId, page, app, sar, syntheticEmails,
                 er, dash, gen, submitted, script, cav, form, auth>>

\* -------------------------------------------------- EmailReview (part_001)
ErInitial ==
  [mounted |-> FALSE, emails |-> <<>>, loading |-> TRUE, error |-> FALSE,
   selectedEmailId |-> NullId, rating |-> 50, feedback |-> ""]

\* mount: useEffect -> fetchEmails, up to the await
ErFetchEmails ==
  /\ page = "Review"
  /\ ~er.mounted
  /\ SendRead(Request(1, "ER", "user-data", userId, NullId, "",
                  FALSE, NullRating, NullText))
  /\ er' = [er EXCEPT !.mounted = TRUE, !.loading = TRUE]
  /\ UNCHANGED <<serverVars, userId, page, app, sar, syntheticEmails, review, dash, submitted,
                 gen>>
  /\ UNCHANGED <<script, cav, form, auth>>

\* fetchEmails, after the await
ErFetchEmailsDone(m) ==
  /\ m \in Responses("ER", "user-data")
  /\ \E x \in InFlight(m) : net' = net \ {x}
  /\ er' = IF AxiosThrows(m)
             THEN [er EXCEPT !.error = TRUE, !.loading = FALSE]
             ELSE [er EXCEPT !.emails = m.data.emails, !.loading = FALSE]
  /\ UNCHANGED <<serverVars, reqCount, userId, page, app, sar, syntheticEmails, review,
                 dash, submitted,
                 gen>>
  /\ UNCHANGED <<script, cav, form, auth>>

\* the list is rendered (not loading, no error, some emails)
ErRendered == er.mounted /\ ~er.loading /\ ~er.error /\ er.emails # <<>>

\* {!email.approved ? (Approve, Reject with Feedback) : Approved}
ErActionsOffered(k) == ErRendered /\ k \in 1..Len(er.emails) /\ ~er.emails[k].approved

\* handleApprove(emailId), up to the await
ErHandleApprove(k) ==
  /\ ErActionsOffered(k)
  /\ Send(Request(1, "ER", "email-feedback", userId, er.emails[k].id,
                  "", TRUE, 100, "Approved"))
  /\ submitted' = submitted \cup {<<"ER", er.emails[k].id>>}
  /\ UNCHANGED <<serverVars, userId, page, uiVars>>

\* handleApprove appending the approved copy instead of replacing the entry
MarkApproved_Append(prevEmails, emailId) ==
  prevEmails \o SelectSeq([k \in 1..Len(prevEmails) |->
                            [prevEmails[k] EXCEPT !.approved = TRUE]],
                         LAMBDA e : e.id = emailId)

\* handleApprove writing approved: (email.id === emailId) into every entry
MarkApproved_Overwrite(prevEmails, emailId) ==
  [k \in 1..Len(prevEmails) |->
     [prevEmails[k] EXCEPT !.approved = (prevEmails[k].id = emailId)]]

\* prevEmails.map(email => email.id === emailId ? {...email, approved: true} : email)
MarkApproved(prevEmails, emailId) ==
  [k \in 1..Len(prevEmails) |->
     IF prevEmails[k].id = emailId
       THEN [prevEmails[k] EXCEPT !.approved = TRUE]
       ELSE prevEmails[k]]

\* the Reject with Feedback button: setSelectedEmailId(email.id)
ErSelect(k) ==
  /\ ErActionsOffered(k)
  /\ er' = [er EXCEPT !.selectedEmailId = er.emails[k].id]
  /\ UNCHANGED <<serverVars, net, reqCount, userId, page, app, sar, syntheticEmails,
                 review, dash, submitted,
                 gen>>
  /\ UNCHANGED <<script, cav, form, auth>>

RangeInputs == {50, 1}

\* the ends of <input type="range" min="1" max="100">
RangeEnds == {1, 100}

\* the feedback form's range input and textarea, with the range inputs tried
ErFormEditWith(ranges) ==
  /\ ErRendered /\ er.selectedEmailId # NullId
  /\ \E r \in ranges, text \in FeedbackInputs :
       er' = [er EXCEPT !.rating = r, !.feedback = text]
  /\ UNCHANGED <<serverVars, net, reqCount, userId, page, app, sar, syntheticEmails,
                 review, dash, submitted,
                 gen>>
  /\ UNCHANGED <<script, cav, form, auth>>

ErFormEdit == ErFormEditWith(RangeInputs)

\* Cancel
ErCancel ==
  /\ ErRendered /\ er.selectedEmailId # NullId
  /\ er' = [er EXCEPT !.selectedEmailId = NullId]
  /\ UNCHANGED <<serverVars, net, reqCount, userId, page, app, sar, syntheticEmails,
                 review, dash, submitted,
                 gen>>
  /\ UNCHANGED <<script, cav, form, auth>>

\* emails.find(email => email.id === selectedEmailId).category
RECURSIVE CategoryOf(_, _)
CategoryOf(emails, emailId) ==
  IF emails = <<>> THEN ""
  ELSE IF Head(emails).id = emailId THEN Head(emails).category
  ELSE CategoryOf(Tail(emails), emailId)

\* handleReject, up to the await; the request remembers the category the
\* handler will find in the emails it closed over
ErHandleReject ==
  /\ ErRendered /\ er.selectedEmailId # NullId
  /\ Send(Request(1, "ER", "email-feedback", userId, er.selectedEmailId,
                  CategoryOf(er.emails, er.selectedEmailId), FALSE,
                  er.rating, er.feedback))
  /\ submitted' = submitted \cup {<<"ER", er.selectedEmailId>>}
  /\ UNCHANGED <<serverVars, userId, page, uiVars>>

\* handleReject marking the regenerated sample as approved
ImprovedEntry_Approved(newEmailId, category, improvedEmail) ==
  [id |-> newEmailId, category |-> category, content |-> improvedEmail,
   approved |-> TRUE]

\* the newEmail handleReject appends
ImprovedEntry(newEmailId, category, improvedEmail) ==
  [id |-> newEmailId, category |-> category, content |-> improvedEmail,
   approved |-> FALSE]

\* handleApprove / handleReject, after the await
ErFeedbackDone(m) ==
  /\ m \in Responses("ER", "email-feedback")
  /\ \E x \in InFlight(m) : net' = net \ {x}
  /\ er' =
       IF AxiosThrows(m) THEN [er EXCEPT !.error = TRUE]
       ELSE IF m.isApproved
         THEN [er EXCEPT !.emails = MarkApproved(@, m.emailId)]
         ELSE [er EXCEPT
                 !.emails = IF m.data.improvedEmail # NullId
                              THEN Append(@, ImprovedEntry(m.data.newEmailId, m.category,
                                                           m.data.improvedEmail))
                              ELSE @,
                 !.selectedEmailId = NullId, !.feedback = "", !.rating = 50]
  /\ UNCHANGED <<serverVars, reqCount, userId, page, app, sar, syntheticEmails, review,
                 dash, submitted,
                 gen>>
  /\ UNCHANGED <<script, cav, form, auth>>

\* ------------------------------------------------ Dashboard (Register.jsx)
\* mount: useEffect -> fetchUserData, up to the await
DashFetchUserData ==
  /\ page = "Dashboard"
  /\ auth.currentUser # NullId /\ ~auth.isLoading
  /\ ~dash.mounted
  /\ SendRead(Request(1, "Dash", "user-data", auth.currentUser, NullId, "",
                  FALSE, NullRating, NullText))
  /\ dash' = [dash EXCEPT !.mounted = TRUE, !.loading = TRUE]
  /\ UNCHANGED <<serverVars, userId, page, app, sar, syntheticEmails, review, er, submitted,
                 gen>>
  /\ UNCHANGED <<script, cav, form, auth>>

\* response.data.syntheticEmails.some(email => email.approved)
HasApprovedEmails(emails) == \E k \in 1..Len(emails) : emails[k].approved

\* fetchUserData, after the await
DashFetchUserDataDone(m) ==
  /\ m \in Responses("Dash", "user-data")
  /\ \E x \in InFlight(m) : net' = net \ {x}
  /\ dash' = IF AxiosThrows(m)
               THEN [dash EXCEPT !.error = TRUE, !.loading = FALSE]
               ELSE [dash EXCEPT !.hasStyleProfile = HasApprovedEmails(m.data.emails),
                                 !.loading = FALSE]
  /\ UNCHANGED <<serverVars, reqCount, userId, page, app, sar, syntheticEmails, review,
                 er, submitted,
                 gen>>
  /\ UNCHANGED <<script, cav, form, auth>>

\* the request posted with a fixed user id instead of currentUser.id
SaveStyleProfileRequest_FixedUser ==
  Request(1, "Dash", "save-style-profile", 2, NullId, "", FALSE, NullRating, NullText)

\* axios.post('/api/save-style-profile', {userId: currentUser.id})
SaveStyleProfileRequest ==
  Request(1, "Dash", "save-style-profile", auth.currentUser, NullId, "", FALSE,
          NullRating, NullText)

\* handleSaveStyleProfile, up to the await; the button is shown with
\* hasStyleProfile and disabled while loading
DashHandleSaveStyleProfile ==
  /\ auth.currentUser # NullId /\ ~auth.isLoading
  /\ dash.mounted /\ dash.hasStyleProfile /\ ~dash.loading
  /\ Send(SaveStyleProfileRequest)
  /\ dash' = [dash EXCEPT !.loading = TRUE]
  /\ UNCHANGED <<serverVars, userId, page, app, sar, syntheticEmails, review, er, submitted,
                 gen>>
  /\ UNCHANGED <<script, cav, form, auth>>

\* handleSaveStyleProfile reporting a save whatever response.data.success says
DashSaveStyleProfileDone_IgnoreSuccess(m) ==
  /\ m \in Responses("Dash", "save-style-profile")
  /\ \E x \in InFlight(m) : net' = net \ {x}
  /\ dash' = IF ~AxiosThrows(m)
               THEN [dash EXCEPT !.styleProfileSaved = TRUE, !.loading = FALSE]
               ELSE [dash EXCEPT !.error = TRUE, !.loading = FALSE]
  /\ UNCHANGED <<serverVars, reqCount, userId, page, app, sar, syntheticEmails, review,
                 er, submitted, gen, script, cav, form, auth>>

\* handleSaveStyleProfile, after the await
DashSaveStyleProfileDone(m) ==
  /\ m \in Responses("Dash", "save-style-profile")
  /\ \E x \in InFlight(m) : net' = net \ {x}
  /\ dash' = IF ~AxiosThrows(m) /\ m.data.success
               THEN [dash EXCEPT !.styleProfileSaved = TRUE, !.loading = FALSE]
               ELSE [dash EXCEPT !.error = TRUE, !.loading = FALSE]
  /\ UNCHANGED <<serverVars, reqCount, userId, page, app, sar, syntheticEmails, review,
                 er, submitted,
                 gen>>
  /\ UNCHANGED <<script, cav, form, auth>>

\* setTimeout(() => setStyleProfileSaved(false), 3000)
DashHideSaved ==
  /\ dash.styleProfileSaved
  /\ dash' = [dash EXCEPT !.styleProfileSaved = FALSE]
  /\ UNCHANGED <<serverVars, net, reqCount, userId, page, app, sar, syntheticEmails,
                 review, er, gen, submitted>>
  /\ UNCHANGED <<script, cav, form, auth>>

\* -------------------------------------- EmailGenerator (ProtectedRoute.jsx)
\* String.prototype.trim over a sequence of characters
RECURSIVE TrimStart(_)
TrimStart(t) == IF t # <<>> /\ Head(t) = " " THEN TrimStart(Tail(t)) ELSE t

RECURSIVE TrimEnd(_)
TrimEnd(t) ==
  IF t # <<>> /\ t[Len(t)] = " " THEN TrimEnd(SubSeq(t, 1, Len(t) - 1)) ELSE t

Trim(t) == TrimEnd(TrimStart(t))

\* what the user types into a text input
TextInputs == {<<>>, <<" ">>, <<"a">>}

GenInitial ==
  [recipient |-> <<>>, topic |-> <<>>, keyPoints |-> <<>>, keyPointsList |-> <<>>,
   generatedEmail |-> NullId, loading |-> FALSE, error |-> "", success |-> FALSE]

\* const effectiveUserId = 1
effectiveUserId == 1

\* the component is mounted: the /generate-email route
GenRendered == page = "Composer"

\* onChange of the recipient input (disabled while loading)
GenSetRecipient ==
  /\ GenRendered /\ ~gen.loading
  /\ \E t \in TextInputs : t # gen.recipient /\ gen' = [gen EXCEPT !.recipient = t]
  /\ UNCHANGED <<serverVars, net, reqCount, userId, page, app, sar, syntheticEmails,
                 review, er, dash, submitted>>
  /\ UNCHANGED <<script, cav, form, auth>>

\* onChange of the topic input (disabled while loading)
GenSetTopic ==
  /\ GenRendered /\ ~gen.loading
  /\ \E t \in TextInputs : t # gen.topic /\ gen' = [gen EXCEPT !.topic = t]
  /\ UNCHANGED <<serverVars, net, reqCount, userId, page, app, sar, syntheticEmails,
                 review, er, dash, submitted>>
  /\ UNCHANGED <<script, cav, form, auth>>

\* onChange of the key point input (disabled while loading)
GenSetKeyPoints ==
  /\ GenRendered /\ ~gen.loading
  /\ \E t \in TextInputs : t # gen.keyPoints /\ gen' = [gen EXCEPT !.keyPoints = t]
  /\ UNCHANGED <<serverVars, net, reqCount, userId, page, app, sar, syntheticEmails,
                 review, er, dash, submitted>>
  /\ UNCHANGED <<script, cav, form, auth>>

\* handleAddKeyPoint (the Add button, or Enter in the input)
GenHandleAddKeyPoint ==
  /\ GenRendered /\ ~gen.loading
  /\ Len(gen.keyPointsList) < MaxKeyPoints
  /\ Trim(gen.keyPoints) # <<>>
  /\ gen' = [gen EXCEPT !.keyPointsList = Append(@, Trim(gen.keyPoints)),
                        !.keyPoints = <<>>]
  /\ UNCHANGED <<serverVars, net, reqCount, userId, page, app, sar, syntheticEmails,
                 review, er, dash, submitted>>
  /\ UNCHANGED <<script, cav, form, auth>>

\* newList.splice(index, 1)
Splice(list, index) ==
  SubSeq(list, 1, index - 1) \o SubSeq(list, index + 1, Len(list))

\* handleRemoveKeyPoint(index)
GenHandleRemoveKeyPoint(index) ==
  /\ GenRendered /\ ~gen.loading
  /\ index \in 1..Len(gen.keyPointsList)
  /\ gen' = [gen EXCEPT !.keyPointsList = Splice(@, index)]
  /\ UNCHANGED <<serverVars, net, reqCount, userId, page, app, sar, syntheticEmails,
                 review, er, dash, submitted>>
  /\ UNCHANGED <<script, cav, form, auth>>

\* handleSubmit sending a form that has no key point
ValidationMessage_NoKeyPointCheck(recipient, topic, keyPointsList) ==
  IF Trim(recipient) = <<>> THEN "Recipient is required"
  ELSE IF Trim(topic) = <<>> THEN "Topic is required"
  ELSE ""

\* the checks handleSubmit makes before it sends: the message of the first
\* one that fails, '' when all pass
ValidationMessage(recipient, topic, keyPointsList) ==
  IF Trim(recipient) = <<>> THEN "Recipient is required"
  ELSE IF Trim(topic) = <<>> THEN "Topic is required"
  ELSE IF Len(keyPointsList) = 0 THEN "At least one key point is required"
  ELSE ""

\* a POST /api/generate-email of component `from`
GenerateRequest(from, u, recipient, topic, keyPoints) ==
  [Request(1, from, "generate-email", u, NullId, "", FALSE, NullRating, NullText)
     EXCEPT !.recipient = recipient, !.topic = topic, !.keyPoints = keyPoints]

\* handleSubmit, up to the await (the button is disabled while loading)
GenHandleSubmit ==
  /\ GenRendered /\ ~gen.loading
  /\ LET message == ValidationMessage(gen.recipient, gen.topic, gen.keyPointsList) IN
     IF message # ""
       THEN /\ gen' = [gen EXCEPT !.error = message]
            /\ UNCHANGED <<net, reqCount>>
       ELSE /\ Send(GenerateRequest("Gen", effectiveUserId, gen.recipient, gen.topic,
                                    gen.keyPointsList))
            /\ gen' = [gen EXCEPT !.loading = TRUE, !.error = "", !.success = FALSE]
  /\ UNCHANGED <<serverVars, userId, page, app, sar, syntheticEmails, review, er, dash,
                 submitted>>
  /\ UNCHANGED <<script, cav, form, auth>>

\* err.response.data.error || 'Server error: ...' / 'No response received from server'
ErrorMessage(m) ==
  IF m.status = 0 THEN "No response received from server"
  ELSE IF m.data.error # "" THEN m.data.error
  ELSE "Server error"

\* handleSubmit, after the await (axios)
GenSubmitDone(m) ==
  /\ m \in Responses("Gen", "generate-email")
  /\ \E x \in InFlight(m) : net' = net \ {x}
  /\ gen' = IF AxiosThrows(m)
              THEN [gen EXCEPT !.error = ErrorMessage(m), !.loading = FALSE]
              ELSE [gen EXCEPT !.generatedEmail = m.data.content, !.success = TRUE,
                               !.loading = FALSE]
  /\ UNCHANGED <<serverVars, reqCount, userId, page, app, sar, syntheticEmails, review,
                 er, dash, submitted>>
  /\ UNCHANGED <<script, cav, form, auth>>

\* ------------------------------- callers of the generation request without a form
\* the emailData / arguments a caller passes
GenInputs ==
  {[recipient |-> <<>>, topic |-> <<"a">>, keyPoints |-> << <<"a">> >>],
   [recipient |-> <<"a">>, topic |-> <<>>, keyPoints |-> << <<"a">> >>],
   [recipient |-> <<"a">>, topic |-> <<"a">>, keyPoints |-> <<>>],
   [recipient |-> <<"a">>, topic |-> <<"a">>, keyPoints |-> << <<"a">> >>]}

\* App.handleGenerateEmail(emailData), up to the await (part_005)
AppHandleGenerateEmail ==
  /\ page = "Wizard" /\ app.mounted /\ app.activeStep = 2
  /\ \E emailData \in GenInputs :
       Send(GenerateRequest("App", userId, emailData.recipient, emailData.topic,
                            emailData.keyPoints))
  /\ app' = [app EXCEPT !.loading = TRUE, !.generatedEmail = NullId]
  /\ UNCHANGED <<serverVars, userId, page, sar, syntheticEmails, review, er, dash, gen,
                 submitted>>
  /\ UNCHANGED <<script, cav, form, auth>>

\* handleGenerateEmail with setLoading(false) at the end of its try block
\* instead of in a finally
AppGenerateEmailDone_NoFinally(m) ==
  /\ m \in Responses("App", "generate-email")
  /\ \E x \in InFlight(m) : net' = net \ {x}
  /\ app' = IF FetchThrows(m) THEN app
            ELSE IF m.data.success
              THEN [app EXCEPT !.generatedEmail = m.data.generatedEmail,
                               !.loading = FALSE]
              ELSE [app EXCEPT !.loading = FALSE]
  /\ UNCHANGED <<serverVars, reqCount, userId, page, sar, syntheticEmails, review, er,
                 dash, gen, submitted>>
  /\ UNCHANGED <<script, cav, form, auth>>

\* App.handleGenerateEmail, after the await (fetch)
AppGenerateEmailDone(m) ==
  /\ m \in Responses("App", "generate-email")
  /\ \E x \in InFlight(m) : net' = net \ {x}
  /\ app' = IF ~FetchThrows(m) /\ m.data.success
              THEN [app EXCEPT !.generatedEmail = m.data.generatedEmail,
                               !.loading = FALSE]
              ELSE [app EXCEPT !.loading = FALSE]
  /\ UNCHANGED <<serverVars, reqCount, userId, page, sar, syntheticEmails, review, er,
                 dash, gen, submitted>>
  /\ UNCHANGED <<script, cav, form, auth>>

\* ---------------------------------------- the api.js client (part_000)
\* one of the exported functions is called: its one apiClient request goes
\* out; the caller awaits each call before it makes the next
ApiCall(m) ==
  /\ page = "Script"
  /\ net = {}
  /\ Send(m)
  /\ script' = [script EXCEPT !.calls = @ + 1]
  /\ UNCHANGED <<serverVars, userId, page, app, sar, syntheticEmails, review, er,
                 dash, gen, submitted>>
  /\ UNCHANGED <<cav, form, auth>>

\* a client that asks again when its request has failed
ApiSettle_Retry(m, op) ==
  /\ m \in Responses("api", op)
  /\ IF AxiosThrows(m)
       THEN /\ \E x \in InFlight(m) :
                 net' = (net \ {x}) \cup {[x EXCEPT !.phase = "req", !.status = 0,
                                                    !.data = NoData]}
            /\ UNCHANGED script
       ELSE /\ \E x \in InFlight(m) : net' = net \ {x}
            /\ script' = [script EXCEPT !.returned = @ + 1]
  /\ UNCHANGED <<serverVars, reqCount, userId, page, app, sar, syntheticEmails,
                 review, er, dash, gen, submitted>>
  /\ UNCHANGED <<cav, form, auth>>

\* the await of an exported function resumes: it returns response.data, or
\* logs and rethrows what axios threw
ApiSettle(m, op) ==
  /\ m \in Responses("api", op)
  /\ \E x \in InFlight(m) : net' = net \ {x}
  /\ script' = IF AxiosThrows(m) THEN [script EXCEPT !.thrown = @ + 1]
                                ELSE [script EXCEPT !.returned = @ + 1]
  /\ UNCHANGED <<serverVars, reqCount, userId, page, app, sar, syntheticEmails,
                 review, er, dash, gen, submitted>>
  /\ UNCHANGED <<cav, form, auth>>

\* submitEmails(userId, emailPairs)
ApiSubmitEmails ==
  ApiCall(Request(1, "api", "submit-emails", userId, NullId, "", FALSE,
                  NullRating, NullText))

ApiSubmitEmailsDone(m) == ApiSettle(m, "submit-emails")

\* the feedback a caller passes: an approval, or a rejection with its reasons
FeedbackArgs ==
  {[isApproved |-> TRUE, rating |-> NullRating, comments |-> NullText],
   [isApproved |-> FALSE, rating |-> 50, comments |-> "more formal"]}

\* submitEmailFeedback(userId, emailId, isApproved, rating, comments)
ApiSubmitEmailFeedback ==
  \E emailId \in RowsOf(userId), args \in FeedbackArgs :
    ApiCall(Request(1, "api", "email-feedback", userId, emailId, "",
                    args.isApproved, args.rating, args.comments))

ApiSubmitEmailFeedbackDone(m) == ApiSettle(m, "email-feedback")

\* generateEmail(userId, recipient, topic, keyPoints)
ApiGenerateEmail ==
  \E args \in GenInputs :
    ApiCall(GenerateRequest("api", userId, args.recipient, args.topic, args.keyPoints))

ApiGenerateEmailDone(m) == ApiSettle(m, "generate-email")

\* getUserData(userId)
ApiGetUserData ==
  ApiCall(Request(1, "api", "user-data", userId, NullId, "", FALSE,
                  NullRating, NullText))

ApiGetUserDataDone(m) == ApiSettle(m, "user-data")

\* a caller of the core's saveStyleProfile(userId) that is not the dashboard
CallerSaveStyleProfile ==
  /\ page = "Script"
  /\ net = {}
  /\ Send(Request(1, "caller", "save-style-profile", userId, NullId, "", FALSE,
                  NullRating, NullText))
  /\ UNCHANGED <<serverVars, userId, page, uiVars, submitted>>

CallerSaveStyleProfileDone(m) ==
  /\ m \in Responses("caller", "save-style-profile")
  /\ \E x \in InFlight(m) : net' = net \ {x}
  /\ UNCHANGED <<serverVars, reqCount, userId, page, uiVars, submitted>>

\* ------------------------------------------- the store (schema.sql)
\* user_id ... ON DELETE CASCADE: the rows of user u go with the user
\* a reference to users(id) without ON DELETE CASCADE: the rows stay
Cascade_None(tbl, u, gone) == tbl

Cascade(tbl, u, gone) ==
  [i \in 1..Len(tbl) |-> IF tbl[i].userId = u THEN gone ELSE tbl[i]]

\* original_email_id REFERENCES synthetic_emails(id), with no ON DELETE
\* action: the delete fails while a row that stays refers to a row that goes
DeleteBlocked(u) ==
  \E j \in RowIds :
    /\ rows[j].userId # u
    /\ rows[j].originalEmailId # NullId
    /\ rows[rows[j].originalEmailId].userId = u

\* DELETE FROM users WHERE id = u; the frozen profile is made of the user's
\* approved rows and goes with them
DeleteUser(u) ==
  /\ u \in users
  /\ ~DeleteBlocked(u)
  /\ reqCount < MaxRequests
  /\ reqCount' = reqCount + 1
  /\ users' = users \ {u}
  /\ emailPairs' = Cascade(emailPairs, u, [userId |-> NullId])
  /\ styleAnalysis' = [styleAnalysis EXCEPT ![u] = <<>>]
  /\ rows' = Cascade(rows, u, NoRow)
  /\ generatedEmails' =
       Cascade(generatedEmails, u,
               [userId |-> NullId, recipient |-> <<>>, topic |-> <<>>,
                keyPoints |-> <<>>, content |-> NullId])
  /\ profile' = [profile EXCEPT ![u] = {}]
  /\ UNCHANGED <<llmCalls, net, userId, page, uiVars, submitted>>

\* ------------- AuthProvider (AuthContext.jsx), ProtectedRoute and Login
\* (ProtectedRoute.jsx), Register (Register.jsx), Navbar, the routes (App.js)
\* An account's e-mail and the token of its session are written as the
\* account's id; NullId is a localStorage key or a header that is absent.
NoHeaders == [userId |-> NullId, sessionToken |-> NullId]

\* useState of Login and of Register
AccountFormInitial == [isLoading |-> FALSE, error |-> ""]

\* useState of AuthProvider before its effects have run; `stored` is the
\* session an earlier visit left in localStorage
AuthInitial(stored) ==
  [mounted |-> FALSE, currentUser |-> NullId, isLoading |-> TRUE,
   error |-> NullText, userEmail |-> stored, sessionToken |-> stored,
   headers |-> NoHeaders, login |-> AccountFormInitial,
   register |-> AccountFormInitial]

\* the session of user u after its mount-time check has succeeded
SignedIn(u) ==
  [AuthInitial(u) EXCEPT !.mounted = TRUE, !.currentUser = u,
                         !.isLoading = FALSE,
                         !.headers = [userId |-> u, sessionToken |-> u]]

\* the routes of App.js: /login and /register are public, the others are
\* wrapped in ProtectedRoute
PublicPages    == {"Login", "Register"}
ProtectedPages == {"Dashboard", "Form", "Analysis", "Composer"}

\* the accounts whose credentials are typed into Login, and the account a
\* registration creates
LoginAccounts == {1, 2}
NewAccount    == 3

\* ProtectedRoute with its two tests in the other order
ProtectedRouteView_UserFirst(isLoading, currentUser) ==
  IF currentUser = NullId THEN "redirect"
  ELSE IF isLoading THEN "loading"
  ELSE "children"

\* what ProtectedRoute returns
ProtectedRouteView(isLoading, currentUser) ==
  IF isLoading THEN "loading"
  ELSE IF currentUser = NullId THEN "redirect"
  ELSE "children"

\* what the protected route that is open shows
ProtectedView == ProtectedRouteView(auth.isLoading, auth.currentUser)

\* the effect on [currentUser]: the axios default headers are set from
\* localStorage when it holds a userId and a sessionToken; `uid` is the
\* userId localStorage holds when the effect runs
HeadersEffect(a, uid) ==
  IF uid # NullId /\ a.sessionToken # NullId
    THEN [a EXCEPT !.headers = [userId |-> uid, sessionToken |-> a.sessionToken]]
    ELSE a

\* a request to /api/auth/...; `account` is the account the body names
AuthRequest(from, op, account) ==
  Request(1, from, op, account, NullId, "", FALSE, NullRating, NullText)

AuthOps == {"verify-session", "login", "register", "logout"}

\* The auth collaborator: it answers success, success=false with status 200,
\* or an error status. Its tables (users' credentials, sessions) are not
\* modelled: every answer is possible for every request.
ServerAuth(m) ==
  /\ m \in net /\ m.phase = "req" /\ m.op \in AuthOps
  /\ \E ok \in BOOLEAN, errStatus \in ErrorStatuses :
       net' = (net \ {m}) \cup
              {[m EXCEPT !.phase = "resp",
                         !.status = IF ok THEN 200 ELSE errStatus,
                         !.data = [NoData EXCEPT
                                     !.success = ok,
                                     !.error = IF ok THEN "" ELSE "refused"]]}
  /\ UNCHANGED <<serverVars, reqCount, userId, page, uiVars, submitted>>

\* logout() after its await, or without one: the three items are removed,
\* the two headers are deleted and currentUser is set to null (the effect
\* that follows finds localStorage empty)
LogoutTail(a) ==
  [a EXCEPT !.userEmail = NullId, !.sessionToken = NullId,
            !.headers = NoHeaders, !.currentUser = NullId]

\* a logout request, told apart from the calls of logout still in flight
LogoutRequest(u) ==
  LET m     == AuthRequest("Auth", "logout", u)
      taken == {x.n : x \in {y \in net : y.from = m.from /\ y.op = m.op}}
  IN  [m EXCEPT !.n = CHOOSE k \in 1..(Cardinality(net) + 1) :
                        k \notin taken /\ \A j \in 1..(k - 1) : j \in taken]

\* logout() up to its await, called when AuthProvider's state is a and the
\* caller has taken `taken` from the transport: with a stored session the
\* request is sent and nothing is cleared yet
Logout(a, taken) ==
  IF userId # NullId /\ a.sessionToken # NullId
    THEN /\ net' = (net \ taken) \cup {LogoutRequest(userId)}
         /\ auth' = a
         /\ UNCHANGED userId
    ELSE /\ net' = net \ taken
         /\ auth' = LogoutTail(a)
         /\ userId' = NullId

\* AuthProvider's effects on mount: the headers effect, then checkSession up
\* to its await (or to its end, when localStorage holds no session)
AuthCheckSession ==
  /\ ~auth.mounted
  /\ LET a == HeadersEffect([auth EXCEPT !.mounted = TRUE], userId) IN
       IF userId # NullId /\ auth.sessionToken # NullId
         THEN /\ SendRead(AuthRequest("Auth", "verify-session", userId))
              /\ auth' = a
         ELSE /\ auth' = [a EXCEPT !.isLoading = FALSE]
              /\ UNCHANGED <<net, reqCount>>
  /\ UNCHANGED <<serverVars, userId, page, app, sar, syntheticEmails, review, er,
                 dash, gen, submitted, script, cav, form>>

\* checkSession after its await: currentUser is built from the userId read
\* before the await; logout() is called and not awaited
AuthCheckSessionDone(m) ==
  /\ m \in Responses("Auth", "verify-session")
  /\ IF ~AxiosThrows(m) /\ m.data.success
       THEN /\ \E x \in InFlight(m) : net' = net \ {x}
            /\ auth' = HeadersEffect([auth EXCEPT !.currentUser = m.userId,
                                                  !.isLoading = FALSE], userId)
            /\ UNCHANGED userId
       ELSE LET a == [auth EXCEPT
                        !.error = IF AxiosThrows(m)
                                    THEN "Session verification failed" ELSE @,
                        !.isLoading = FALSE]
            IN  \E x \in InFlight(m) : Logout(a, {x})
  /\ UNCHANGED <<serverVars, reqCount, page, app, sar, syntheticEmails, review, er,
                 dash, gen, submitted, script, cav, form>>

\* the Logout button of Navbar (shown with a currentUser) and
\* Dashboard.handleLogout: logout() up to its await
AuthLogout ==
  /\ auth.mounted /\ auth.currentUser # NullId
  /\ reqCount < MaxRequests
  /\ reqCount' = reqCount + 1
  /\ Logout(auth, {})
  /\ UNCHANGED <<serverVars, page, app, sar, syntheticEmails, review, er,
                 dash, gen, submitted, script, cav, form>>

\* logout() that clears the session only when its request was answered
AuthLogoutDone_OnSuccessOnly(m) ==
  /\ m \in Responses("Auth", "logout")
  /\ \E x \in InFlight(m) : net' = net \ {x}
  /\ IF AxiosThrows(m)
       THEN UNCHANGED <<auth, userId>>
       ELSE auth' = LogoutTail(auth) /\ userId' = NullId
  /\ UNCHANGED <<serverVars, reqCount, page, app, sar, syntheticEmails, review, er,
                 dash, gen, submitted, script, cav, form>>

\* logout() after its await: the answer is not looked at, a rejection is caught
AuthLogoutDone(m) ==
  /\ m \in Responses("Auth", "logout")
  /\ \E x \in InFlight(m) : net' = net \ {x}
  /\ auth' = LogoutTail(auth)
  /\ userId' = NullId
  /\ UNCHANGED <<serverVars, reqCount, page, app, sar, syntheticEmails, review, er,
                 dash, gen, submitted, script, cav, form>>

\* Login.handleSubmit up to the await inside login(): the inputs are
\* `required`, so the submit event is raised with both filled in
LoginHandleSubmit(account) ==
  /\ page = "Login" /\ auth.mounted
  /\ ~auth.login.isLoading
  /\ Send(AuthRequest("Login", "login", account))
  /\ auth' = [auth EXCEPT !.login = [isLoading |-> TRUE, error |-> ""],
                          !.isLoading = TRUE, !.error = NullText]
  /\ UNCHANGED <<serverVars, userId, page, app, sar, syntheticEmails, review, er,
                 dash, gen, submitted, script, cav, form>>

\* login() after its await, then the rest of Login.handleSubmit; the state
\* of a Login that has been left is not set
LoginDone(m) ==
  /\ m \in Responses("Login", "login")
  /\ \E x \in InFlight(m) : net' = net \ {x}
  /\ LET ok    == ~AxiosThrows(m) /\ m.data.success
         shown == page = "Login"
         a     == [auth EXCEPT
                     !.login = IF shown
                                 THEN [isLoading |-> FALSE,
                                       error |-> IF ok THEN @.error ELSE "Login failed"]
                                 ELSE @,
                     !.isLoading = FALSE]
     IN  IF ok
           THEN /\ userId' = m.userId
                /\ auth' = HeadersEffect([a EXCEPT !.userEmail = m.userId,
                                                   !.sessionToken = m.userId,
                                                   !.currentUser = m.userId],
                                         m.userId)
                /\ page' = "Dashboard"
           ELSE /\ auth' = [a EXCEPT !.error = "Login failed"]
                /\ UNCHANGED <<userId, page>>
  /\ UNCHANGED <<serverVars, reqCount, app, sar, syntheticEmails, review, er,
                 dash, gen, submitted, script, cav, form>>

\* register() of the context, up to its await. No component of these sources
\* calls it (Register posts by itself); it is called here as a registration
\* page that uses the context would call it.
AuthRegister ==
  /\ page = "Register" /\ auth.mounted
  /\ ~auth.isLoading
  /\ Send(AuthRequest("Auth", "register", NewAccount))
  /\ auth' = [auth EXCEPT !.isLoading = TRUE, !.error = NullText]
  /\ UNCHANGED <<serverVars, userId, page, app, sar, syntheticEmails, review, er,
                 dash, gen, submitted, script, cav, form>>

\* register() of the context, after its await
AuthRegisterDone(m) ==
  /\ m \in Responses("Auth", "register")
  /\ \E x \in InFlight(m) : net' = net \ {x}
  /\ IF ~AxiosThrows(m) /\ m.data.success
       THEN /\ userId' = m.userId
            /\ auth' = HeadersEffect([auth EXCEPT !.userEmail = m.userId,
                                                  !.sessionToken = m.userId,
                                                  !.currentUser = m.userId,
                                                  !.isLoading = FALSE],
                                     m.userId)
       ELSE /\ auth' = [auth EXCEPT !.error = "Registration failed",
                                    !.isLoading = FALSE]
            /\ UNCHANGED userId
  /\ UNCHANGED <<serverVars, reqCount, page, app, sar, syntheticEmails, review, er,
                 dash, gen, submitted, script, cav, form>>

\* Register.handleSubmit up to its await; it returns before it when the two
\* passwords differ
RegisterHandleSubmit(passwordsMatch) ==
  /\ page = "Register" /\ auth.mounted
  /\ ~auth.register.isLoading
  /\ IF passwordsMatch
       THEN /\ Send(AuthRequest("Register", "register", NewAccount))
            /\ auth' = [auth EXCEPT !.register = [isLoading |-> TRUE, error |-> ""]]
       ELSE /\ auth' = [auth EXCEPT !.register = [isLoading |-> FALSE,
                                                  error |-> "Passwords do not match"]]
            /\ UNCHANGED <<net, reqCount>>
  /\ UNCHANGED <<serverVars, userId, page, app, sar, syntheticEmails, review, er,
                 dash, gen, submitted, script, cav, form>>

\* Register.handleSubmit after its await: the three items are stored and the
\* router is sent to /dashboard; AuthProvider's state is not touched
RegisterDone(m) ==
  /\ m \in Responses("Register", "register")
  /\ \E x \in InFlight(m) : net' = net \ {x}
  /\ LET ok    == ~AxiosThrows(m) /\ m.data.success
         shown == page = "Register"
         a     == [auth EXCEPT
                     !.register = IF shown
                                    THEN [isLoading |-> FALSE,
                                          error |-> IF ok THEN @.error
                                                    ELSE "Registration failed"]
                                    ELSE @]
     IN  IF ok
           THEN /\ userId' = m.userId
                /\ auth' = [a EXCEPT !.userEmail = m.userId,
                                     !.sessionToken = m.userId]
                /\ page' = "Dashboard"
           ELSE /\ auth' = a
                /\ UNCHANGED <<userId, page>>
  /\ UNCHANGED <<serverVars, reqCount, app, sar, syntheticEmails, review, er,
                 dash, gen, submitted, script, cav, form>>

\* the links of Navbar: the logo leads to / and from there to /dashboard;
\* Login and Register are shown without a currentUser, Dashboard with one.
\* A page that is entered starts with fresh state, and is not entered again
\* while a request of its earlier instance is pending.
NavbarLink(to) ==
  /\ auth.mounted
  /\ to \in {"Login", "Register", "Dashboard"} /\ to # page
  /\ to \in PublicPages => auth.currentUser = NullId
  /\ \A m \in net : m.from # to
  /\ page' = to
  /\ auth' = [auth EXCEPT !.login = IF to = "Login" THEN AccountFormInitial ELSE @,
                          !.register = IF to = "Register" THEN AccountFormInitial
                                       ELSE @]
  /\ UNCHANGED <<serverVars, net, reqCount, userId, app, sar, syntheticEmails,
                 review, er, dash, gen, submitted, script, cav, form>>

\* <Navigate to="/login" replace /> of ProtectedRoute
ProtectedRouteRedirect ==
  /\ auth.mounted
  /\ page \in ProtectedPages /\ ProtectedView = "redirect"
  /\ \A m \in net : m.from # "Login"
  /\ page' = "Login"
  /\ auth' = [auth EXCEPT !.login = AccountFormInitial]
  /\ UNCHANGED <<serverVars, net, reqCount, userId, app, sar, syntheticEmails,
                 review, er, dash, gen, submitted, script, cav, form>>

\* ------------------------------------------------------- the state machine
\* The database the session starts on: user 2 has an approved sample, user 1
\* an approved and a pending one, all left by earlier one-sample batches;
\* user 3 has registered and submitted nothing.
InitRows ==
  LET t1 == GenerateCategory(<<>>, 2, "Formal", 1)
      t2 == SubmitFeedback(t1, 0, 2, 1, TRUE, NullRating, NullText, TRUE).rows
      t3 == GenerateCategory(GenerateCategory(t2, 1, "Casual", 1), 1, "Formal", 1)
  IN  SubmitFeedback(t3, 0, 1, 2, TRUE, NullRating, NullText, TRUE).rows

\* the e-mail pairs users 1 and 2 analysed
InitPairs == StorePairs(StorePairs(<<>>, 2, MinPairs), 1, MinPairs)

\* no call made yet through the api.js client
ScriptInitial == [calls |-> 0, returned |-> 0, thrown |-> 0]

\* no profile frozen yet
NoProfiles == [u \in Users |-> {}]

\* user 1 froze the profile when sample 2 was the only one approved
EarlierProfiles == [NoProfiles EXCEPT ![1] = SaveStyleProfile(InitRows, 1)]

InitStore(pages, sessionUsers, frozen, forms, fresh) ==
  /\ rows = InitRows
  /\ llmCalls = 0
  /\ styleAnalysis = [u \in Users |-> IF u = 1 THEN <<"Casual", "Formal">>
                                      ELSE IF u = 2 THEN <<"Formal">> ELSE <<>>]
  /\ profile = frozen
  /\ net = {}
  /\ reqCount = 0
  /\ userId \in sessionUsers
  /\ page \in pages
  /\ app = [mounted |-> FALSE, activeStep |-> 0, loading |-> FALSE,
            generatedEmail |-> NullId]
  /\ sar = [generatingEmails |-> FALSE,
            snackbar |-> [open |-> FALSE, severity |-> "info", message |-> ""]]
  /\ syntheticEmails = [h \in Hosts |-> NoEmails]
  /\ review = [h \in Hosts |-> ReviewInitial]
  /\ er = ErInitial
  /\ dash = [mounted |-> FALSE, hasStyleProfile |-> FALSE, loading |-> TRUE,
             error |-> FALSE, styleProfileSaved |-> FALSE]
  /\ gen = GenInitial
  /\ generatedEmails = <<>>
  /\ submitted = {}
  /\ users = Users
  /\ emailPairs = InitPairs
  /\ script = ScriptInitial
  /\ cav = [mounted |-> FALSE, loading |-> TRUE, error |-> FALSE]
  /\ form \in forms
  /\ auth = IF fresh THEN AuthInitial(userId) ELSE SignedIn(userId)

\* the pages other than the form start with a form that has been filled in
InitOn(pages, sessionUsers) ==
  InitStore(pages, sessionUsers, NoProfiles, {FilledForm}, FALSE)

\* the backend
Server ==
  \/ \E m \in net : ServerSyntheticEmails(m)
  \/ \E m \in net : ServerEmailFeedback(m)
  \/ \E m \in net : ServerUserData(m)
  \/ \E m \in net : ServerGenerateEmail(m)

\* StyleAnalysisResults and the SyntheticEmailReview a parent mounts
Reviewing ==
  \/ SarHandleGenerateSyntheticEmails
  \/ \E m \in Responses("SAR", "synthetic-emails") : SarGenerateDone(m)
  \/ \E m \in Responses("SAR", "email-feedback") : SarEmailFeedbackDone(m)
  \/ \E h \in Hosts : \E ci \in Cards(h) : HandleApprove(h, ci[1], ci[2])
  \/ \E h \in Hosts : \E ci \in Cards(h) : HandleImprove(h, ci[1], ci[2])
  \/ \E h \in Hosts : DialogEdit(h)
  \/ \E h \in Hosts : DialogCancel(h)
  \/ \E h \in Hosts : HandleFeedbackSubmit(h)

\* the routed front end, EmailReview and the api.js client
Init == InitOn(OtherPages, {1})

Next ==
  \/ Server
  \/ \E m \in net : ServerSaveStyleProfile(m)
  \/ Reviewing
  \/ ErFetchEmails
  \/ \E m \in Responses("ER", "user-data") : ErFetchEmailsDone(m)
  \/ \E k \in 1..Len(er.emails) : ErHandleApprove(k)
  \/ \E k \in 1..Len(er.emails) : ErSelect(k)
  \/ ErFormEdit
  \/ ErCancel
  \/ ErHandleReject
  \/ \E m \in Responses("ER", "email-feedback") : ErFeedbackDone(m)
  \/ DashFetchUserData
  \/ \E m \in Responses("Dash", "user-data") : DashFetchUserDataDone(m)
  \/ DashHandleSaveStyleProfile
  \/ \E m \in Responses("Dash", "save-style-profile") : DashSaveStyleProfileDone(m)
  \/ DashHideSaved
  \/ GenSetRecipient
  \/ GenSetTopic
  \/ GenSetKeyPoints
  \/ GenHandleAddKeyPoint
  \/ \E index \in 1..Len(gen.keyPointsList) : GenHandleRemoveKeyPoint(index)
  \/ GenHandleSubmit
  \/ \E m \in Responses("Gen", "generate-email") : GenSubmitDone(m)
  \/ ApiGenerateEmail
  \/ \E m \in Responses("api", "generate-email") : ApiGenerateEmailDone(m)

Spec == Init /\ [][Next]_vars

\* the wizard, and StyleAnalysisResults next to it
InitHosts == InitOn(HostPages, {1})

NextHosts ==
  \/ Server
  \/ \E m \in net : ServerSubmitEmails(m)
  \/ Reviewing
  \/ AppCheckUserData
  \/ \E m \in Responses("App", "user-data") : AppCheckUserDataDone(m)
  \/ AppHandleEmailSubmit
  \/ \E m \in Responses("App", "submit-emails") : AppEmailSubmitDone(m)
  \/ AppHandleCompleteReview
  \/ \E m \in Responses("App", "email-feedback") : AppEmailFeedbackDone(m)
  \/ AppHandleGenerateEmail
  \/ \E m \in Responses("App", "generate-email") : AppGenerateEmailDone(m)

SpecHosts == InitHosts /\ [][NextHosts]_vars

\* the accounts: any user on the dashboard or calling the backend through
\* the api.js client, and the deletion of users
InitUsers == InitStore({"Dashboard", "Script"}, Users, EarlierProfiles, {FilledForm}, FALSE)

NextUsers ==
  \/ \E m \in net : ServerEmailFeedback(m)
  \/ \E m \in net : ServerUserData(m)
  \/ \E m \in net : ServerGenerateEmail(m)
  \/ \E m \in net : ServerSubmitEmails(m)
  \/ \E m \in net : ServerSaveStyleProfile(m)
  \/ DashFetchUserData
  \/ \E m \in Responses("Dash", "user-data") : DashFetchUserDataDone(m)
  \/ DashHandleSaveStyleProfile
  \/ \E m \in Responses("Dash", "save-style-profile") : DashSaveStyleProfileDone(m)
  \/ DashHideSaved
  \/ ApiSubmitEmails
  \/ \E m \in Responses("api", "submit-emails") : ApiSubmitEmailsDone(m)
  \/ ApiSubmitEmailFeedback
  \/ \E m \in Responses("api", "email-feedback") : ApiSubmitEmailFeedbackDone(m)
  \/ ApiGenerateEmail
  \/ \E m \in Responses("api", "generate-email") : ApiGenerateEmailDone(m)
  \/ ApiGetUserData
  \/ \E m \in Responses("api", "user-data") : ApiGetUserDataDone(m)
  \/ CallerSaveStyleProfile
  \/ \E m \in Responses("caller", "save-style-profile") : CallerSaveStyleProfileDone(m)
  \/ \E u \in users : DeleteUser(u)

SpecUsers == InitUsers /\ [][NextUsers]_vars

\* the two views that mount SyntheticEmailReview next to the style analysis,
\* with the closing of their notices
InitNotices == InitOn({"Analysis", "Combined"}, {1})

NextNotices ==
  \/ \E m \in net : ServerSyntheticEmails(m)
  \/ \E m \in net : ServerEmailFeedback(m)
  \/ Reviewing
  \/ \E h \in Hosts : SnackbarClose(h)
  \/ SarSnackbarClose
  \/ CavFetchSyntheticEmails
  \/ \E m \in Responses("CAV", "synthetic-emails") : CavFetchSyntheticEmailsDone(m)
  \/ \E m \in Responses("CAV", "email-feedback") : CavEmailFeedbackDone(m)

SpecNotices == InitNotices /\ [][NextNotices]_vars

\* the composer, opened from the dashboard of any of the users
InitComposer == InitOn({"Composer"}, Users)

NextComposer ==
  \/ \E m \in net : ServerGenerateEmail(m)
  \/ GenSetRecipient
  \/ GenSetTopic
  \/ GenSetKeyPoints
  \/ GenHandleAddKeyPoint
  \/ \E index \in 1..Len(gen.keyPointsList) : GenHandleRemoveKeyPoint(index)
  \/ GenHandleSubmit
  \/ \E m \in Responses("Gen", "generate-email") : GenSubmitDone(m)

SpecComposer == InitComposer /\ [][NextComposer]_vars

\* the input form, in the wizard and in the dashboard's submit tab
InitForm ==
  InitStore({"Wizard", "Form"}, {1}, NoProfiles,
            {FormInitial(version) : version \in FormVersions}, FALSE)

NextForm ==
  \/ \E m \in net : ServerUserData(m)
  \/ \E m \in net : ServerSubmitEmails(m)
  \/ FormHandleAddPair
  \/ \E id \in 1..MaxPairId : FormHandleRemovePair(id)
  \/ FormHandleSubmit
  \/ \E m \in Responses("Form", "submit-emails") : FormSubmitDone(m)
  \/ AppCheckUserData
  \/ \E m \in Responses("App", "user-data") : AppCheckUserDataDone(m)
  \/ AppHandleEmailSubmit
  \/ \E m \in Responses("App", "submit-emails") : AppEmailSubmitDone(m)

SpecForm == InitForm /\ [][NextForm]_vars

\* the two review front ends with every input of their rating widgets
InitRatings == InitOn({"Analysis", "Review"}, {1})

NextRatings ==
  \/ \E m \in net : ServerSyntheticEmails(m)
  \/ \E m \in net : ServerEmailFeedback(m)
  \/ \E m \in net : ServerUserData(m)
  \/ SarHandleGenerateSyntheticEmails
  \/ \E m \in Responses("SAR", "synthetic-emails") : SarGenerateDone(m)
  \/ \E m \in Responses("SAR", "email-feedback") : SarEmailFeedbackDone(m)
  \/ \E h \in Hosts : \E ci \in Cards(h) : HandleImprove(h, ci[1], ci[2])
  \/ \E h \in Hosts : DialogEditWith(h, HalfStarEnds)
  \/ \E h \in Hosts : DialogCancel(h)
  \/ \E h \in Hosts : HandleFeedbackSubmit(h)
  \/ ErFetchEmails
  \/ \E m \in Responses("ER", "user-data") : ErFetchEmailsDone(m)
  \/ \E k \in 1..Len(er.emails) : ErSelect(k)
  \/ ErFormEditWith(RangeEnds)
  \/ ErCancel
  \/ ErHandleReject
  \/ \E m \in Responses("ER", "email-feedback") : ErFeedbackDone(m)

SpecRatings == InitRatings /\ [][NextRatings]_vars

\* The session's sign-in state: AuthProvider is mounted over a localStorage
\* that is empty or holds the session of user 1, on one of the routes.
InitAuth ==
  InitStore({"Login", "Register", "Dashboard"}, {NullId, 1}, NoProfiles,
            {FilledForm}, TRUE)

NextAuth ==
  \/ \E m \in net : ServerAuth(m)
  \/ AuthCheckSession
  \/ \E m \in Responses("Auth", "verify-session") : AuthCheckSessionDone(m)
  \/ AuthLogout
  \/ \E m \in Responses("Auth", "logout") : AuthLogoutDone(m)
  \/ \E account \in LoginAccounts : LoginHandleSubmit(account)
  \/ \E m \in Responses("Login", "login") : LoginDone(m)
  \/ \E passwordsMatch \in BOOLEAN : RegisterHandleSubmit(passwordsMatch)
  \/ \E m \in Responses("Register", "register") : RegisterDone(m)
  \/ \E to \in PublicPages \cup ProtectedPages : NavbarLink(to)
  \/ ProtectedRouteRedirect

SpecAuth == InitAuth /\ [][NextAuth]_vars

\* The request handlers that hold a loading flag: the wizard and the
\* composer of a signed-in user, /login and /register opened over an empty
\* localStorage, and /dashboard opened over the stored session of user 1.
InitLoading ==
  \/ InitOn({"Wizard", "Composer"}, {1})
  \/ InitStore({"Login", "Register"}, {NullId}, NoProfiles, {FilledForm}, TRUE)
  \/ InitStore({"Dashboard"}, {1}, NoProfiles, {FilledForm}, TRUE)

\* the steps that end an await
Resuming ==
  \/ \E m \in Responses("Auth", "verify-session") : AuthCheckSessionDone(m)
  \/ \E m \in Responses("Auth", "logout") : AuthLogoutDone(m)
  \/ \E m \in Responses("Login", "login") : LoginDone(m)
  \/ \E m \in Responses("Auth", "register") : AuthRegisterDone(m)
  \/ \E m \in Responses("Register", "register") : RegisterDone(m)
  \/ \E m \in Responses("Dash", "user-data") : DashFetchUserDataDone(m)
  \/ \E m \in Responses("Dash", "save-style-profile") : DashSaveStyleProfileDone(m)
  \/ \E m \in Responses("Gen", "generate-email") : GenSubmitDone(m)
  \/ \E m \in Responses("App", "user-data") : AppCheckUserDataDone(m)
  \/ \E m \in Responses("App", "submit-emails") : AppEmailSubmitDone(m)
  \/ \E m \in Responses("App", "generate-email") : AppGenerateEmailDone(m)

NextLoading ==
  \/ \E m \in net : ServerAuth(m)
  \/ \E m \in net : ServerUserData(m)
  \/ \E m \in net : ServerSubmitEmails(m)
  \/ \E m \in net : ServerSaveStyleProfile(m)
  \/ \E m \in net : ServerGenerateEmail(m)
  \/ AuthCheckSession
  \/ \E account \in LoginAccounts : LoginHandleSubmit(account)
  \/ AuthRegister
  \/ \E passwordsMatch \in BOOLEAN : RegisterHandleSubmit(passwordsMatch)
  \/ DashFetchUserData
  \/ DashHandleSaveStyleProfile
  \/ GenSetRecipient
  \/ GenSetTopic
  \/ GenSetKeyPoints
  \/ GenHandleAddKeyPoint
  \/ GenHandleSubmit
  \/ AppCheckUserData
  \/ AppHandleEmailSubmit
  \/ AppHandleCompleteReview
  \/ AppHandleGenerateEmail
  \/ Resuming

\* AuthProvider's mount effect runs, and every await resumes: its request is
\* answered or the transport gives it up
SpecLoading ==
  /\ InitLoading /\ [][NextLoading]_vars
  /\ WF_vars(AuthCheckSession)
  /\ WF_vars(Resuming)

\* ------------------------------------------------------------ properties
\* responses the backend hands out in this step
Answered == {r \in net' \ net : r.phase = "resp"}

\* messages whose await resumes in this step
Resumed(from) == {m \in net \ net' : m.from = from}

FeedbackAnswers == {r \in Answered : r.op = "email-feedback"}

OwnedRow(r) == r.emailId \in RowIds /\ rows[r.emailId].userId = r.userId

\* C1: a successful rejection of a pending sample S creates exactly one new
\* row S' with originalEmailId = S.id, S's category and approved = false and
\* changes no existing row (S stays pending); EmailReview then appends S' with
\* S's category and approved = false and leaves its entry of S as it was.
C1_RejectionCreatesSuccessor ==
  [][ /\ \A r \in FeedbackAnswers :
           (~r.isApproved /\ r.data.success) =>
             /\ OwnedRow(r) /\ ~rows[r.emailId].approved
             /\ Len(rows') = Len(rows) + 1
             /\ \A i \in RowIds : rows'[i] = rows[i]
             /\ rows'[Len(rows')].originalEmailId = r.emailId
             /\ rows'[Len(rows')].category = rows[r.emailId].category
             /\ ~rows'[Len(rows')].approved
             /\ r.data.newEmailId = Len(rows')
      /\ \A m \in Resumed("ER") :
           (m.phase = "resp" /\ m.op = "email-feedback" /\ ~m.isApproved
              /\ m.data.success /\ ~er'.error) =>
             /\ Len(er'.emails) = Len(er.emails) + 1
             /\ \A k \in 1..Len(er.emails) : er'.emails[k] = er.emails[k]
             /\ er'.emails[Len(er'.emails)] =
                  [id |-> m.data.newEmailId, category |-> rows[m.emailId].category,
                   content |-> rows[m.data.newEmailId].content, approved |-> FALSE]
             /\ rows[m.data.newEmailId].originalEmailId = m.emailId
    ]_vars

\* C1 witness: EmailReview shows a regenerated sample next to the pending
\* sample it was regenerated from
C1_Witness ==
  \E k, j \in 1..Len(er.emails) :
    /\ er.emails[k].id \in RowIds
    /\ rows[er.emails[k].id].originalEmailId = er.emails[j].id
    /\ ~rows[er.emails[j].id].approved /\ ~er.emails[j].approved

\* C2: a rejection of a sample that is already approved never succeeds: it
\* creates no row, calls no model, and a request that passes validation fails
\* with InvalidStateTransition.
C2_ApprovalIsTerminal ==
  [][ \A r \in FeedbackAnswers :
        (~r.isApproved /\ OwnedRow(r) /\ rows[r.emailId].approved) =>
          /\ ~r.data.success
          /\ rows' = rows /\ llmCalls' = llmCalls
          /\ (ValidRating(r.rating) /\ ~FalsyText(r.comments))
               => r.data.error = "InvalidStateTransition"
    ]_vars

\* C2 witness: a rejection of an approved sample was answered
C2_Witness ==
  \E r \in net : /\ r.phase = "resp" /\ r.op = "email-feedback" /\ ~r.isApproved
                 /\ r.data.error = "InvalidStateTransition"
                 /\ rows[r.emailId].approved /\ Successors(rows, r.emailId) = {}

\* C3: approving an already approved sample succeeds and changes no row; when
\* the approval's response arrives EmailReview keeps the number of entries and
\* StyleAnalysisResults keeps its mapping.
C3_ReapprovalIdempotent ==
  [][ /\ \A r \in FeedbackAnswers :
           (r.isApproved /\ OwnedRow(r) /\ rows[r.emailId].approved) =>
             r.data.success /\ rows' = rows /\ llmCalls' = llmCalls
      /\ \A m \in Resumed("ER") :
           (m.phase = "resp" /\ m.op = "email-feedback" /\ m.isApproved /\ ~er'.error) =>
             /\ Len(er'.emails) = Len(er.emails)
             /\ \A k \in 1..Len(er.emails) :
                  /\ er'.emails[k].id = er.emails[k].id
                  /\ er.emails[k].id = m.emailId => er'.emails[k].approved
      /\ \A m \in Resumed("SAR") :
           (m.op = "email-feedback" /\ m.isApproved) => syntheticEmails' = syntheticEmails
    ]_vars

\* C3 witness: the same sample was approved twice and both calls succeeded
C3_Witness ==
  \E r1, r2 \in net :
    /\ r1 # r2 /\ r1.emailId = r2.emailId
    /\ r1.phase = "resp" /\ r2.phase = "resp"
    /\ r1.op = "email-feedback" /\ r2.op = "email-feedback"
    /\ r1.isApproved /\ r2.isApproved /\ r1.data.success /\ r2.data.success

EmptyInput(m) == m.recipient = <<>> \/ m.topic = <<>> \/ m.keyPoints = <<>>

\* C6: a generateEmail request with an empty recipient, topic or keyPoints
\* fails with ValidationError, calls no model and stores no email, and the
\* EmailGenerator form sends no request while a field is blank.
C6_EmptyInputRejected ==
  [][ /\ \A r \in Answered :
           (r.op = "generate-email" /\ EmptyInput(r)) =>
             /\ ~r.data.success /\ r.data.error = "ValidationError"
             /\ llmCalls' = llmCalls /\ generatedEmails' = generatedEmails
      /\ \A m \in net' :
           (m.op = "generate-email" /\ m.from = "Gen") =>
             /\ Trim(m.recipient) # <<>> /\ Trim(m.topic) # <<>> /\ m.keyPoints # <<>>
             /\ m.recipient = gen'.recipient /\ m.topic = gen'.topic
    ]_vars

\* C6 witness: a request without a recipient was answered with
\* ValidationError, no model call made and no email stored
C6_Witness ==
  /\ \E r \in net : /\ r.phase = "resp" /\ r.op = "generate-email"
                     /\ r.recipient = <<>> /\ r.data.error = "ValidationError"
  /\ llmCalls = 0 /\ generatedEmails = <<>>

\* C6 as stated: no request with an empty recipient, topic or keyPoints is
\* ever issued to the backend, whichever caller issues it.
C6_NoRequestOnEmptyInput ==
  \A m \in net : m.op = "generate-email" => ~EmptyInput(m)

MissingInput(r) == ~ValidRating(r.rating) \/ FalsyText(r.comments)

\* C4: a rejection whose rating or comments are missing fails with
\* ValidationError, calls no model and creates no row; the SyntheticEmailReview
\* dialog does not send such a rejection at all.
C4_ValidationPrecedesSideEffects ==
  [][ /\ \A r \in FeedbackAnswers :
           (~r.isApproved /\ MissingInput(r)) =>
             /\ ~r.data.success
             /\ rows' = rows /\ llmCalls' = llmCalls
             /\ OwnedRow(r) => r.data.error = "ValidationError"
      /\ \A m \in net' :
           (m.from \in Hosts /\ m.op = "email-feedback" /\ ~m.isApproved)
             => ~MissingInput(m)
    ]_vars

\* C4 witness: a rejection without comments was answered with ValidationError
C4_Witness ==
  \E r \in net : /\ r.phase = "resp" /\ r.op = "email-feedback" /\ ~r.isApproved
                 /\ FalsyText(r.comments) /\ r.data.error = "ValidationError"

\* C5: a successful saveStyleProfile issued by the session's user leaves that
\* user's profile equal to the set of the user's approved rows at that moment;
\* the profile changes in no other way.
C5_ProfileIsApprovedSet ==
  [][ /\ \A r \in Answered :
           (r.op = "save-style-profile" /\ r.from = "Dash" /\ r.data.success) =>
             /\ profile'[userId] = ApprovedOf(userId)
             /\ \A u \in Users \ {userId} : profile'[u] = profile[u]
      /\ (profile' # profile) =>
           \E r \in Answered : r.op = "save-style-profile" /\ r.data.success
    ]_vars

\* C5 witness: the user's profile is frozen while the user has a pending
\* sample and another user has an approved one
C5_Witness ==
  /\ profile[userId] # {}
  /\ \E i \in RowsOf(userId) : ~rows[i].approved
  /\ \E i \in RowIds : rows[i].userId # userId /\ rows[i].approved
                        /\ i \notin profile[userId]

WellPartitioned(mapping, catSeq) ==
  /\ DOMAIN mapping = SeqRange(catSeq)
  /\ \A c \in DOMAIN mapping :
       /\ Len(mapping[c]) = SampleCount
       /\ \A k \in 1..Len(mapping[c]) : mapping[c][k].category = c

C8_ApprovedIsFrozen ==
  [][ /\ \A i \in RowIds : rows[i].approved => (i <= Len(rows') /\ rows'[i] = rows[i])
      /\ \A k \in 1..Len(er.emails) :
           er.emails[k].approved =>
             (k <= Len(er'.emails) /\ er'.emails[k] = er.emails[k])
    ]_vars

\* C8 witness: EmailReview shows as approved a sample it has approved, after
\* a later feedback on that sample was answered
C8_Witness ==
  /\ \E k \in 1..Len(er.emails) :
       /\ er.emails[k].approved /\ rows[er.emails[k].id].rating = 100
       /\ <<"ER", er.emails[k].id>> \in submitted
  /\ reqCount = MaxRequests /\ net = {}

\* C9: no sample has more than one successor.
C9_AtMostOneSuccessor ==
  \A i \in RowIds : Cardinality(Successors(rows, i)) <= 1

\* C9 witness: a pending sample with two successors
C9_Witness ==
  \E i \in RowIds : ~rows[i].approved /\ Cardinality(Successors(rows, i)) = 2

\* the component offers an approve or reject action on the sample
ActionOffered(component, emailId) ==
  IF component \in Hosts
    THEN \E ci \in Cards(component) :
           /\ syntheticEmails[component][ci[1]][ci[2]].id = emailId
           /\ ApproveOffered(component, ci[1], ci[2])
                \/ ImproveOffered(component, ci[1], ci[2])
    ELSE \E k \in 1..Len(er.emails) :
           er.emails[k].id = emailId /\ ErActionsOffered(k)

\* C10: once the UI has submitted feedback for a sample it offers no further
\* approve or reject action on that sample.
C10_NoActionAfterFeedback ==
  \A s \in submitted : ~ActionOffered(s[1], s[2])

\* C10 witness: the backend has recorded the approval of a sample and its
\* card still offers the actions
C10_Witness ==
  \E s \in submitted :
    /\ s[1] \in Hosts /\ ActionOffered(s[1], s[2])
    /\ rows[s[2]].approved /\ net = {}

\* the failures of the external language-model capability
ExternalFailures ==
  {"ModelCallFailure", "AnalysisFailure", "GenerationFailure", "CompositionFailure"}

\* responses of submitEmailPairs, submitFeedback, saveStyleProfile and
\* generateEmail reporting such a failure that a client takes up in this step
FailuresTakenUp ==
  {x \in net \ net' :
     /\ x.phase = "resp" /\ x.data.error \in ExternalFailures
     /\ x.op \in {"submit-emails", "email-feedback", "save-style-profile",
                  "generate-email"}}

\* the wizard's analysis / sample state
ClientSampleState == <<syntheticEmails, app.activeStep, app.generatedEmail>>

\* C11: an operation failing with ModelCallFailure, AnalysisFailure or
\* CompositionFailure leaves every table as it was; one failing with
\* GenerationFailure leaves the profile, the generated e-mails and every
\* existing sample as they were and only adds pending samples of the
\* categories that were generated; the client that takes up any of these
\* failures keeps its samples, its step and its generated e-mail.
C11_FailureKeepsState ==
  [][ /\ \A r \in Answered :
           /\ r.data.error \in ExternalFailures \ {"GenerationFailure"} =>
                UNCHANGED <<rows, styleAnalysis, profile, generatedEmails, emailPairs>>
           /\ r.data.error = "GenerationFailure" =>
                /\ UNCHANGED <<profile, generatedEmails>>
                /\ Len(rows') >= Len(rows)
                /\ \A i \in RowIds : rows'[i] = rows[i]
                /\ \A i \in (Len(rows) + 1)..Len(rows') :
                     /\ rows'[i].userId = r.userId
                     /\ ~rows'[i].approved
                     /\ rows'[i].originalEmailId = NullId
                     /\ rows'[i].category \in SeqRange(styleAnalysis'[r.userId])
      /\ FailuresTakenUp # {} => ClientSampleState' = ClientSampleState
    ]_vars

\* a submission failed in the generator after a category had been generated:
\* the batch's rows are in the table and the wizard is still on its first step
C11_Witness ==
  /\ page = "Wizard" /\ app.activeStep = 0 /\ ~app.loading /\ net = {}
  /\ reqCount = 1
  /\ Len(rows) > Len(InitRows)
  /\ syntheticEmails["App"] = NoEmails

\* C11 as stated: whichever of the four failures an operation reports, the
\* tables and the client's analysis / sample state are as before the operation.
C11_NoPartialState ==
  [][ /\ \A r \in Answered :
           r.data.error \in ExternalFailures =>
             UNCHANGED <<rows, styleAnalysis, profile, generatedEmails, emailPairs>>
      /\ FailuresTakenUp # {} => ClientSampleState' = ClientSampleState
    ]_vars

\* the backend answers m with GenerationFailure having stored exactly the
\* batch of category c
FailsKeeping(m, c) ==
  /\ ServerSyntheticEmails(m)
  /\ \E r \in net' \ net : r.phase = "resp" /\ r.data.error = "GenerationFailure"
  /\ Len(rows') = Len(rows) + SampleCount
  /\ \A i \in RowIds : rows'[i] = rows[i]
  /\ \A i \in (Len(rows) + 1)..Len(rows') :
       rows'[i] = NewRow(m.userId, c, NullId, i)

\* C12: each category is generated on its own: whenever a generation is
\* asked for a user whose analysis has several categories, it can fail for
\* the others while the samples of any one category are made and stay stored.
C12_CategoriesIndependent ==
  \A m \in Requests("synthetic-emails") :
    Len(styleAnalysis[m.userId]) > 1 =>
      \A c \in SeqRange(styleAnalysis[m.userId]) : ENABLED FailsKeeping(m, c)

\* a generation has failed and left the samples of one category only
C12_Witness ==
  /\ \E r \in net : /\ r.phase = "resp" /\ r.op = "synthetic-emails"
                     /\ r.data.error = "GenerationFailure"
                     /\ Len(styleAnalysis[r.userId]) > 1
  /\ Len(rows) = Len(InitRows) + SampleCount
  /\ rows[Len(rows)].category = "Formal"
  /\ \A i \in RowIds : rows[i].category = "Casual" => i <= Len(InitRows)

\* requests put in flight in this step
Issued == {m \in net' \ net : m.phase = "req"}

\* calls of the api.js client whose await resumes in this step
Settled == {x \in net \ net' : x.from = "api" /\ net' \subseteq net}

\* the language-model calls an operation makes at most: one for the analysis
\* and one per category for a submission, one for a rejection or a composition
ExternalCalls(r) ==
  IF r.op = "submit-emails" THEN 1 + Len(styleAnalysis'[r.userId])
  ELSE IF r.op = "synthetic-emails" THEN Len(styleAnalysis[r.userId])
  ELSE IF r.op \in {"email-feedback", "generate-email"} THEN 1
  ELSE 0

\* C13: nothing is retried: a step issues at most one request, and never in
\* the step that takes up a response;
\* every call of the api.js client is one request, and when its await resumes
\* the call ends at once, thrown if the request failed; an operation makes at
\* most its external calls, and exactly one when that call fails.
C13_NoInternalRetry ==
  [][ /\ Cardinality(Issued) <= 1
      /\ Issued # {} => net \subseteq net'
      /\ script'.calls - script.calls = Cardinality({m \in Issued : m.from = "api"})
      /\ \A x \in Settled :
           /\ script'.returned + script'.thrown = script.returned + script.thrown + 1
           /\ (x.phase = "req" \/ x.status # 200) => script'.thrown = script.thrown + 1
      /\ \A r \in Answered :
           /\ llmCalls' - llmCalls <= ExternalCalls(r)
           /\ r.data.error \in {"ModelCallFailure", "AnalysisFailure",
                                 "CompositionFailure"} => llmCalls' = llmCalls + 1
    ]_vars

\* a call through the api.js client failed in the language model: one request,
\* one model call, and the caller has the error
C13_Witness ==
  /\ page = "Script" /\ net = {}
  /\ script = [calls |-> 1, returned |-> 0, thrown |-> 1]
  /\ reqCount = 1 /\ llmCalls = 1

\* feedback requests whose failure the view of host h takes up in this step:
\* lost in transport, answered with an error status or with success = false
FailedFeedback(h) ==
  {x \in net \ net' :
     /\ net' \subseteq net
     /\ x.from = h /\ x.op = "email-feedback"
     /\ (x.phase = "req" \/ x.status # 200 \/ ~x.data.success)}

\* an error message is on the screen of the view h
ErrorVisible(h) ==
  \/ h = "SAR" /\ sar.snackbar.open /\ sar.snackbar.severity = "error"
  \/ h = "CAV" /\ cav.error

\* a success message is on the screen of the view h
SuccessVisible(h) ==
  \/ review[h].snackbarOpen
  \/ h = "SAR" /\ sar.snackbar.open /\ sar.snackbar.severity = "success"

\* C14: when the feedback a view has submitted fails, the view shows an error
\* message and no success message.
C14_NoSilentFailure ==
  [][ \A h \in {"SAR", "CAV"} :
        FailedFeedback(h) # {} => ErrorVisible(h)' /\ ~SuccessVisible(h)'
    ]_vars

\* CombinedAnalysisView after an approval that failed: the sample is still
\* pending in the table, "Email approved" is on the screen and no error is
C14_Witness ==
  /\ page = "Combined" /\ net = {} /\ reqCount = MaxRequests
  /\ review["CAV"].snackbarOpen
  /\ review["CAV"].snackbarMessage = "Email approved"
  /\ ~ErrorVisible("CAV")
  /\ \E ci \in Cards("CAV") :
       LET id == syntheticEmails["CAV"][ci[1]][ci[2]].id IN
       <<"CAV", id>> \in submitted /\ ~rows[id].approved

\* answers to saveStyleProfile handed out in this step
SaveAnswers == {r \in Answered : r.op = "save-style-profile"}

\* save requests whose failure the dashboard takes up in this step
FailedSaves ==
  {x \in net \ net' :
     /\ net' \subseteq net
     /\ x.from = "Dash" /\ x.op = "save-style-profile"
     /\ (x.phase = "req" \/ x.status # 200 \/ ~x.data.success)}

\* C15: saveStyleProfile for a user with no approved sample at the time of the
\* call is answered with NoApprovedSamples and freezes nothing, a save that
\* succeeds had an approved sample to freeze, and the dashboard reports a
\* save only for a response that says success.
C15_NoApprovedSamples ==
  [][ /\ \A r \in SaveAnswers :
           /\ ApprovedOf(r.userId) = {} =>
                /\ ~r.data.success /\ r.data.error = "NoApprovedSamples"
                /\ UNCHANGED <<profile, rows>>
           /\ r.data.success =>
                ApprovedOf(r.userId) # {} /\ profile'[r.userId] # {}
      /\ FailedSaves # {} =>
           dash'.styleProfileSaved = dash.styleProfileSaved /\ dash'.error
    ]_vars

\* the dashboard's save for a user whose approved samples are gone by the
\* time of the call: refused, nothing frozen, an error on the dashboard
C15_Witness ==
  /\ page = "Dashboard" /\ net = {}
  /\ dash.hasStyleProfile /\ ~dash.loading /\ dash.error /\ ~dash.styleProfileSaved
  /\ ApprovedOf(userId) = {}
  /\ profile[userId] = {}
  /\ llmCalls = 0

\* C16: a save that succeeds freezes a superset of what was frozen before,
\* and the same set when nothing was approved since the last save; a save
\* that is refused leaves the frozen set alone; the frozen set is always made
\* of approved samples of its user.
C16_SaveIdempotentMonotone ==
  [][ /\ \A r \in SaveAnswers :
           /\ r.data.success =>
                /\ profile[r.userId] \subseteq profile'[r.userId]
                /\ profile[r.userId] = ApprovedOf(r.userId) => UNCHANGED profile
           /\ ~r.data.success => UNCHANGED profile
           /\ \A u \in Users \ {r.userId} : profile'[u] = profile[u]
      /\ \A u \in Users :
           \A i \in profile'[u] : rows'[i].userId = u /\ rows'[i].approved
    ]_vars

\* user 1, whose profile was {2}, has approved sample 3 and saved again
C16_Witness ==
  /\ page = "Script" /\ userId = 1 /\ net = {}
  /\ reqCount = 2
  /\ profile[1] = {2, 3}

\* following originalEmailId from row i ends at a row without predecessor
\* in at most fuel steps
RECURSIVE ChainEnds(_, _, _)
ChainEnds(tbl, i, fuel) ==
  IF i = NullId THEN TRUE
  ELSE IF fuel = 0 \/ i \notin 1..Len(tbl) THEN FALSE
  ELSE ChainEnds(tbl, tbl[i].originalEmailId, fuel - 1)

\* C17: the revision chain is acyclic: a sample names at most one
\* predecessor, that predecessor is an existing sample created earlier
\* (smaller id) in the same category for the same user, and following
\* predecessors from any sample ends after at most as many steps as there
\* are samples.
C17_RevisionChainAcyclic ==
  \A i \in RowIds :
    /\ rows[i].originalEmailId # NullId =>
         /\ rows[i].originalEmailId \in 1..(i - 1)
         /\ rows[rows[i].originalEmailId].userId = rows[i].userId
         /\ rows[rows[i].originalEmailId].category = rows[i].category
    /\ ChainEnds(rows, i, Len(rows))

\* a chain of two revisions: a sample, its revision, and the revision of that
C17_Witness ==
  \E i \in RowIds :
    /\ rows[i].originalEmailId # NullId
    /\ rows[rows[i].originalEmailId].originalEmailId # NullId

\* the operations of the core a client asks for on behalf of a user
CoreOps == {"submit-emails", "email-feedback", "save-style-profile", "generate-email"}

\* C18: every request of a core operation that is in flight carries the id
\* of the user who is logged in, and a generated email is only ever stored
\* for the user who is logged in.
C18_RequestsCarrySessionUser ==
  /\ \A m \in net : m.phase = "req" /\ m.op \in CoreOps => m.userId = userId
  /\ \A i \in 1..Len(generatedEmails) : generatedEmails[i].userId = userId

\* user 2 is logged in and the composer's request stored an email for user 1
C18_Witness ==
  /\ page = "Composer" /\ userId = 2
  /\ \E i \in 1..Len(generatedEmails) : generatedEmails[i].userId = effectiveUserId
  /\ gen.success

\* the users that were deleted
Deleted == Users \ users

\* C19: after any deletion of users no email pair, style analysis, synthetic
\* email, generated email or frozen profile of a deleted user is left, every
\* remaining row belongs to a stored user, every originalEmailId names a row
\* that still exists, and no stored user's deletion is blocked by a reference
\* from another user's row.
C19_ReferentialIntegrity ==
  /\ \A u \in Deleted :
       /\ RowsOf(u) = {}
       /\ \A i \in 1..Len(emailPairs) : emailPairs[i].userId # u
       /\ \A i \in 1..Len(generatedEmails) : generatedEmails[i].userId # u
       /\ styleAnalysis[u] = <<>>
       /\ profile[u] = {}
  /\ \A i \in RowIds :
       /\ rows[i].userId \in users \cup {NullId}
       /\ rows[i].originalEmailId # NullId =>
            /\ rows[i].originalEmailId \in RowIds
            /\ rows[rows[i].originalEmailId] # NoRow
  /\ \A u \in Users : \A i \in profile[u] : rows[i].userId = u
  /\ \A u \in users : ~DeleteBlocked(u)

\* user 1 was deleted after a further sample (a revision or a newly generated
\* one) had been stored for it: that sample and the user's pairs are gone
C19_Witness ==
  /\ 1 \in Deleted
  /\ Len(rows) > Len(InitRows)
  /\ rows[Len(rows)] = NoRow
  /\ \E i \in 1..Len(emailPairs) : emailPairs[i].userId = NullId

\* the answers to a rejection, carrying a new sample, that client from takes
\* up in this step
RejectionsTakenUp(from) ==
  {x \in net \ net' :
     /\ net' \subseteq net
     /\ x.from = from /\ x.phase = "resp" /\ x.op = "email-feedback"
     /\ ~x.isApproved /\ x.status = 200 /\ x.data.success
     /\ x.data.improvedEmail # NullId}

\* the ids a list of samples shows
IdsShown(emails) == {emails[k].id : k \in 1..Len(emails)}

\* newList shows the new sample in place of the rejected one
Replaced(oldList, newList, r) ==
  /\ r.data.newEmailId \in IdsShown(newList)
  /\ r.emailId \notin IdsShown(newList)
  /\ Len(newList) = Len(oldList)

\* C20: when a client takes up the answer to a successful rejection without
\* reporting an error, its list shows the returned new sample, no longer
\* shows the rejected sample, and is as long as before (EmailReview's list
\* of emails; StyleAnalysisResults' list of the sample's category).
C20_RejectedSampleReplaced ==
  [][ /\ \A r \in RejectionsTakenUp("ER") :
           ~er'.error => Replaced(er.emails, er'.emails, r)
      /\ \A r \in RejectionsTakenUp("SAR") :
           (sar'.snackbar.severity = "success" /\ r.category \in DOMAIN syntheticEmails["SAR"]) =>
             /\ r.category \in DOMAIN syntheticEmails'["SAR"]
             /\ Replaced(syntheticEmails["SAR"][r.category],
                         syntheticEmails'["SAR"][r.category], r)
    ]_vars

\* EmailReview has taken up a rejection's answer and shows the new sample
\* after the rejected one, which is still in the list
C20_Witness ==
  /\ page = "Review" /\ ~er.error /\ er.selectedEmailId = NullId
  /\ \E k, j \in 1..Len(er.emails) :
       /\ k < j
       /\ er.emails[j].id \in RowIds
       /\ rows[er.emails[j].id].originalEmailId = er.emails[k].id
       /\ Len(er.emails) = Cardinality(RowsOf(userId))

\* the submissions of pairs the input form issues in this step
FormSubmissions ==
  {m \in net' \ net :
     m.phase = "req" /\ m.op = "submit-emails" /\ m.from \in {"App", "Form"}}

\* C21: the input form issues a submission of pairs only while it holds at
\* least the minimum number of pairs (2), whatever pairs were added and
\* removed before, and the submission leaves the pairs as they are.
C21_SubmitNeedsMinPairs ==
  [][FormSubmissions # {} =>
       /\ Len(form.emailPairs) >= MinPairs
       /\ form'.emailPairs = form.emailPairs]_vars

\* a submission is in flight from a form that holds exactly two pairs after
\* a pair was added and removed in between (the ids are no longer 1, 2)
C21_Witness ==
  /\ \E m \in net : m.phase = "req" /\ m.op = "submit-emails"
                     /\ m.from \in {"App", "Form"}
  /\ Len(form.emailPairs) = MinPairs
  /\ PairIds(form.emailPairs) # {1, 2}
  /\ (form.isSubmitting \/ app.loading)

\* the rejections a review front end (SyntheticEmailReview under a parent,
\* or EmailReview) has put in flight
UiRejections ==
  {m \in net : /\ m.op = "email-feedback" /\ ~m.isApproved
               /\ m.from \in Hosts \cup {"ER"}}

\* C22: every rejection a review front end submits carries an integer rating
\* between 1 and 100, whatever the rating widget was set to before, and a
\* dialog whose rating was cleared (0) submits nothing.
C22_RatingInRange ==
  [][ /\ \A m \in UiRejections' : m.rating \in 1..100
      /\ \A h \in Hosts : \A m \in UiRejections' \ UiRejections :
           (m.from = h /\ m.phase = "req") =>
             review[h].rating # 0 /\ m.rating = review[h].rating
      /\ \A m \in UiRejections' \ UiRejections :
           (m.from = "ER" /\ m.phase = "req") => m.rating = er.rating
    ]_vars

\* a rejection with the lowest rating the star widget can give (half a
\* star, 10) is in flight from StyleAnalysisResults' review
C22_Witness ==
  \E m \in UiRejections : m.from = "SAR" /\ m.phase = "req" /\ m.rating = 10

\* C30: in the EmailGenerator the error message and the success flag are
\* never both set.
C30_ErrorExcludesSuccess == ~(gen.error # "" /\ gen.success)

\* after a generation that succeeded, the form was submitted again with an
\* input missing: the validation message is shown next to the success message
C30_Witness ==
  /\ page = "Composer" /\ ~gen.loading
  /\ gen.success /\ gen.generatedEmail # NullId
  /\ gen.error = ValidationMessage(gen.recipient, gen.topic, gen.keyPointsList)
  /\ gen.error # ""

\* C29: the wizard's step never decreases, and it moves only 0 -> 1, 1 -> 2
\* or 0 -> 2.
C29_StepNeverDecreases ==
  [][ /\ app'.activeStep >= app.activeStep
      /\ <<app.activeStep, app'.activeStep>> \in
           {<<0, 0>>, <<1, 1>>, <<2, 2>>, <<0, 1>>, <<1, 2>>, <<0, 2>>}
    ]_vars

\* the wizard of a user with a completed analysis shows the review step with
\* a submission's samples and the mount-time check is no longer pending (an
\* answered check has moved such a user to step 2)
C29_Witness ==
  /\ page = "Wizard" /\ app.mounted /\ app.activeStep = 1
  /\ ~app.loading
  /\ syntheticEmails["App"] # NoEmails
  /\ styleAnalysis[userId] # <<>>
  /\ \A m \in net : m.from # "App"

\* C23: a protected route shows its children exactly when the session check
\* is over and there is a current user, the loading view whenever the check
\* is running, and the redirect to /login when it is over with no current user.
C23_ProtectedRouteGate ==
  /\ ProtectedView = "children" <=> (~auth.isLoading /\ auth.currentUser # NullId)
  /\ auth.isLoading => ProtectedView = "loading"
  /\ (~auth.isLoading /\ auth.currentUser = NullId) => ProtectedView = "redirect"

\* /dashboard shows the Dashboard of a signed-in user
C23_Witness ==
  /\ page = "Dashboard" /\ auth.mounted
  /\ ProtectedView = "children" /\ auth.currentUser # NullId

\* verify-session messages whose await resumes with a failure in this step:
\* a request that got no answer, an error status, or success=false
FailedChecks ==
  {m \in Resumed("Auth") :
     /\ m.op = "verify-session"
     /\ \A r \in net' : r.op # "verify-session"
     /\ (m.phase = "req" \/ m.status # 200 \/ ~m.data.success)}

\* C24: when the session check on mount ends with success=false or a failed
\* request, then on its completion the three localStorage items are gone,
\* currentUser is null and isLoading is false.
C24_InvalidSessionCleared ==
  [][FailedChecks # {} =>
       /\ userId' = NullId
       /\ auth'.userEmail = NullId /\ auth'.sessionToken = NullId
       /\ auth'.currentUser = NullId
       /\ ~auth'.isLoading]_vars

\* the check has failed and is over, and the rejected session is still stored
\* while the logout request it started is pending
C24_Witness ==
  /\ auth.mounted /\ ~auth.isLoading
  /\ auth.error = "Session verification failed"
  /\ \A m \in net : m.op # "verify-session"
  /\ \E m \in net : m.op = "logout"
  /\ userId # NullId /\ auth.sessionToken # NullId

\* register answers with success=true that Register.handleSubmit takes up in
\* this step
Registered ==
  {m \in Resumed("Register") :
     /\ m.op = "register" /\ m.phase = "resp"
     /\ m.status = 200 /\ m.data.success
     /\ userId' = m.userId /\ page' = "Dashboard"}

\* C25: when Register.handleSubmit has taken up a success answer and gone to
\* /dashboard, currentUser is the registered user and the protected route
\* shows the Dashboard.
C25_RegisterAuthenticates ==
  [][\A m \in Registered :
       /\ auth'.currentUser = m.userId
       /\ ProtectedView' = "children"]_vars

\* the registration has been stored and /dashboard is open, and AuthProvider
\* has no current user
C25_Witness ==
  /\ page = "Dashboard" /\ auth.mounted
  /\ userId = NewAccount /\ auth.sessionToken = NewAccount
  /\ auth.currentUser = NullId /\ ~auth.isLoading

\* C26: whenever there is a current user, its id is the userId localStorage
\* holds and localStorage holds a sessionToken.
C26_CurrentUserMatchesStorage ==
  auth.currentUser # NullId =>
    (auth.currentUser = userId /\ auth.sessionToken # NullId)

\* the mount-time check has been answered after a login changed the stored
\* session: the current user is not the user whose session is stored
C26_Witness ==
  /\ auth.mounted /\ ~auth.isLoading
  /\ auth.currentUser = 1 /\ userId = 2 /\ auth.sessionToken = 2
  /\ \A m \in net : m.op # "verify-session"

\* a call of logout ends in this step: its request is taken up, answered or
\* not, or it had no stored session to send one for
LogoutCompletes ==
  \/ \E m \in Resumed("Auth") :
       /\ m.op = "logout"
       /\ ~\E r \in net' \ net : r.op = "logout" /\ r.n = m.n
  \/ /\ \/ reqCount' # reqCount /\ net' = net
        \/ FailedChecks # {}
     /\ \A r \in net' \ net : r.op # "logout"

\* C27: when a call of logout ends, with its request answered or failed, the
\* three localStorage items are absent, the two default headers are removed
\* and currentUser is null.
C27_LogoutEndsLoggedOut ==
  [][LogoutCompletes =>
       /\ userId' = NullId
       /\ auth'.userEmail = NullId /\ auth'.sessionToken = NullId
       /\ auth'.headers = NoHeaders
       /\ auth'.currentUser = NullId]_vars

\* the stored session was rejected by the mount-time check and the logout
\* that followed has ended: nothing is stored and no header is set
C27_Witness ==
  /\ auth.mounted /\ auth.error = "Session verification failed"
  /\ userId = NullId /\ auth.sessionToken = NullId /\ auth.userEmail = NullId
  /\ auth.headers = NoHeaders /\ auth.currentUser = NullId
  /\ \A m \in net : m.op # "logout"

\* C28: every loading flag that a request handler has set is reset in the
\* end: those of AuthProvider, Login, Register, Dashboard, EmailGenerator
\* and the wizard.
C28_LoadingFlagsReset ==
  /\ auth.isLoading ~> ~auth.isLoading
  /\ auth.login.isLoading ~> ~auth.login.isLoading
  /\ auth.register.isLoading ~> ~auth.register.isLoading
  /\ (dash.mounted /\ dash.loading) ~> ~dash.loading
  /\ gen.loading ~> ~gen.loading
  /\ app.loading ~> ~app.loading

\* a login has been refused, and the flags of Login and of AuthProvider are
\* down again
C28_Witness ==
  /\ page = "Login" /\ auth.mounted
  /\ auth.login.error = "Login failed" /\ auth.error = "Login failed"
  /\ ~auth.login.isLoading /\ ~auth.isLoading
  /\ \A m \in net : m.op # "login"
====
